---- MODULE Spec2Model ----
(***************************************************************************)
(* Model of the keai-rag document question-answering service:              *)
(*   - FAISSStore          (src/src/core/faiss_store.py)                   *)
(*   - QdrantStore         (src/src/core/qdrant_store.py)                  *)
(*   - VectorStoreManager  (src/src/core/vector_store_manager.py)          *)
(*   - document routes     (src/src/api/routes/document.py)                *)
(*   - streaming query     (src/src/api/routes/query.py)                   *)
(***************************************************************************)
EXTENDS Integers, Sequences, FiniteSets, TLC

(***************************************************************************)
(* Bounds of the model.                                                    *)
(***************************************************************************)
\* largest batch passed to one insert_vectors call / chunks of one document
MaxBatch == 2
\* largest number of vectors the local index is driven to
MaxVectors == 3
\* number of distinct caller-chosen ids
MaxIds == 2
\* number of document ids (uuid4 values) the upload route can mint
MaxDocs == 2
\* number of answer fragments the LLM stream can yield
MaxFragments == 2
MaxSources == 2
\* number of threads that call the singleton accessors at the same time
MaxThreads == 2
\* length of the texts given to split_text
MaxTextLen == 4
\* largest chunk_size and chunk_overlap a processor is built with
MaxChunk == 3
\* length of each result list given to _merge_results
MaxResults == 2
\* number of retrieval results given to _build_context
MaxHits == 6
\* length of a query text
MaxQueryLen == 2

(***************************************************************************)
(* Value domains.                                                          *)
(***************************************************************************)
\* A vector is abstracted to one coordinate and to whether its shape fits
\* the index dimension (index.add raises otherwise).
Vectors == [fits : BOOLEAN, val : {0, 1}]
Texts == {"t1", "t2"}
\* metadata maps are abstracted to their document_id key; 0 = key absent
Metadatas == [document_id : 0..MaxDocs]
\* ids: caller-chosen "id_k", generated "vec_k", chunk ids "{doc}_chunk_{i}"
CallerId(k) == [kind |-> "id", a |-> k, b |-> 0]
VecId(k) == [kind |-> "vec", a |-> k, b |-> 0]
ChunkId(d, i) == [kind |-> "chunk", a |-> d, b |-> i]
CallerIds == {CallerId(k) : k \in 1..MaxIds}

SeqsUpTo(S, n) == UNION {[1..k -> S] : k \in 0..n}
Min(a, b) == IF a < b THEN a ELSE b
Max(a, b) == IF a > b THEN a ELSE b
Range(s) == {s[i] : i \in DOMAIN s}
IsInjective(s) == \A i, j \in DOMAIN s : s[i] = s[j] => i = j

(***************************************************************************)
(* FAISSStore: in-memory state and the three files of a collection.        *)
(***************************************************************************)
EmptyMap == [x \in {} |-> 0]

\* fields assigned by FAISSStore.__init__ before load/create
BlankStore ==
    [index |-> [present |-> FALSE, vecs |-> <<>>],
     metadata_store |-> EmptyMap,
     id_to_idx |-> EmptyMap,
     idx_to_id |-> EmptyMap,
     next_idx |-> 0]

MetaBundle(st) ==
    [metadata_store |-> st.metadata_store,
     id_to_idx |-> st.id_to_idx,
     idx_to_id |-> st.idx_to_id,
     next_idx |-> st.next_idx]

\* an empty storage directory
NoFiles ==
    [index |-> [exists |-> FALSE, vecs |-> <<>>],
     metadata |-> [exists |-> FALSE, data |-> MetaBundle(BlankStore)],
     config |-> [exists |-> FALSE]]

\* variant of Save that writes the index file only
Save_IndexOnly(st, dsk) ==
    [dsk EXCEPT
       !.index = IF st.index.present
                 THEN [exists |-> TRUE, vecs |-> st.index.vecs]
                 ELSE @]

\* _save: the index file is written only when an index object exists, the
\* metadata file is always written.
Save(st, dsk) ==
    [dsk EXCEPT
       !.index = IF st.index.present
                 THEN [exists |-> TRUE, vecs |-> st.index.vecs]
                 ELSE @,
       !.metadata = [exists |-> TRUE, data |-> MetaBundle(st)]]

\* _load
Load(dsk) ==
    [index |-> [present |-> TRUE, vecs |-> dsk.index.vecs],
     metadata_store |-> dsk.metadata.data.metadata_store,
     id_to_idx |-> dsk.metadata.data.id_to_idx,
     idx_to_id |-> dsk.metadata.data.idx_to_id,
     next_idx |-> dsk.metadata.data.next_idx]

collection_exists(dsk) ==
    dsk.index.exists /\ dsk.metadata.exists /\ dsk.config.exists

\* create_collection: a new empty index object replaces self.index, the
\* config file is written, then _save.  Result: [st, dsk, ok].
create_collection(st, dsk) ==
    LET st1 == [st EXCEPT !.index = [present |-> TRUE, vecs |-> <<>>]]
        dsk1 == [dsk EXCEPT !.config = [exists |-> TRUE]]
    IN [st |-> st1, dsk |-> Save(st1, dsk1), ok |-> TRUE]

\* delete_collection: unlink the three files, reset the in-memory state.
delete_collection(st, dsk) ==
    [st |-> BlankStore, dsk |-> NoFiles, ok |-> TRUE]

\* FAISSStore.__init__ on a storage directory
FaissOpen(dsk) ==
    IF collection_exists(dsk)
    THEN [st |-> Load(dsk), dsk |-> dsk]
    ELSE LET r == create_collection(BlankStore, dsk)
         IN [st |-> r.st, dsk |-> r.dsk]

get_vector_count(st) == IF st.index.present THEN Len(st.index.vecs) ELSE 0

\* insert_vectors.  ids = [given, ids]; given = FALSE is ids=None.
\* Result: [st, dsk, ok].
GeneratedIds(st, n) == [i \in 1..n |-> VecId(st.next_idx + i - 1)]

LastPos(s, m, x) == CHOOSE i \in 1..m : s[i] = x /\ \A j \in 1..m : s[j] = x => j <= i

insert_vectors(st, dsk, vectors, texts, metadatas, ids) ==
    LET n == Len(vectors)
        use_ids == IF ids.given THEN ids.ids ELSE GeneratedIds(st, n)
        \* zip(ids, texts, metadatas) stops at the shortest
        m == Min(Len(use_ids), n)
        base == st.next_idx
        new_offsets == {base + i - 1 : i \in 1..m}
        new_ids == {use_ids[i] : i \in 1..m}
        st1 == [st EXCEPT
                 !.index = [present |-> TRUE,
                            vecs |-> @.vecs \o [i \in 1..n |-> vectors[i].val]],
                 !.metadata_store =
                     [x \in DOMAIN @ \cup new_offsets |->
                        IF x \in new_offsets
                        THEN [id |-> use_ids[x - base + 1],
                              text |-> texts[x - base + 1],
                              metadata |-> metadatas[x - base + 1]]
                        ELSE @[x]],
                 !.id_to_idx =
                     [x \in DOMAIN @ \cup new_ids |->
                        IF x \in new_ids
                        THEN base + LastPos(use_ids, m, x) - 1
                        ELSE @[x]],
                 !.idx_to_id =
                     [x \in DOMAIN @ \cup new_offsets |->
                        IF x \in new_offsets THEN use_ids[x - base + 1] ELSE @[x]],
                 !.next_idx = @ + n]
    IN  IF ~st.index.present
        THEN [st |-> st, dsk |-> dsk, ok |-> FALSE]
        ELSE IF ~(Len(vectors) = Len(texts) /\ Len(texts) = Len(metadatas))
        THEN [st |-> st, dsk |-> dsk, ok |-> FALSE]
        \* np.array / index.add raise on an empty batch or a wrong shape
        ELSE IF n = 0 \/ \E i \in 1..n : ~vectors[i].fits
        THEN [st |-> st, dsk |-> dsk, ok |-> FALSE]
        ELSE [st |-> st1, dsk |-> Save(st1, dsk), ok |-> TRUE]

\* the rebuild loop of delete_by_ids, from old_idx up to ntotal - 1
RECURSIVE Rebuild(_, _, _, _)
Rebuild(st, indices_to_delete, old_idx, acc) ==
    IF old_idx >= Len(st.index.vecs)
    THEN acc
    ELSE IF old_idx \in indices_to_delete
    THEN Rebuild(st, indices_to_delete, old_idx + 1, acc)
    ELSE LET acc1 == [acc EXCEPT !.vecs = Append(@, st.index.vecs[old_idx + 1])]
             entry == st.metadata_store[old_idx]
             acc2 == IF old_idx \in DOMAIN st.metadata_store
                     THEN [acc1 EXCEPT
                            !.metadata_store =
                                [x \in DOMAIN @ \cup {acc.new_idx} |->
                                   IF x = acc.new_idx THEN entry ELSE @[x]],
                            !.id_to_idx =
                                [x \in DOMAIN @ \cup {entry.id} |->
                                   IF x = entry.id THEN acc.new_idx ELSE @[x]],
                            !.idx_to_id =
                                [x \in DOMAIN @ \cup {acc.new_idx} |->
                                   IF x = acc.new_idx THEN entry.id ELSE @[x]],
                            !.new_idx = @ + 1]
                     ELSE acc1
         IN Rebuild(st, indices_to_delete, old_idx + 1, acc2)

\* variant of delete_by_ids that resolves only the first id of the list
delete_by_ids_FirstOnly(st, dsk, ids) ==
    LET indices_to_delete ==
            {st.id_to_idx[x] : x \in {ids[i] : i \in DOMAIN ids \cap {1}} \cap DOMAIN st.id_to_idx}
        acc == Rebuild(st, indices_to_delete, 0,
                       [vecs |-> <<>>, metadata_store |-> EmptyMap,
                        id_to_idx |-> EmptyMap, idx_to_id |-> EmptyMap,
                        new_idx |-> 0])
        st1 == [index |-> [present |-> TRUE, vecs |-> acc.vecs],
                metadata_store |-> acc.metadata_store,
                id_to_idx |-> acc.id_to_idx,
                idx_to_id |-> acc.idx_to_id,
                next_idx |-> acc.new_idx]
    IN  IF ~st.index.present
        THEN [st |-> st, dsk |-> dsk, ok |-> FALSE]
        ELSE IF indices_to_delete = {}
        THEN [st |-> st, dsk |-> dsk, ok |-> TRUE]
        ELSE [st |-> st1, dsk |-> Save(st1, dsk), ok |-> TRUE]

\* delete_by_ids.  ids is a sequence.  Result: [st, dsk, ok].
delete_by_ids(st, dsk, ids) ==
    LET indices_to_delete ==
            {st.id_to_idx[x] : x \in Range(ids) \cap DOMAIN st.id_to_idx}
        acc == Rebuild(st, indices_to_delete, 0,
                       [vecs |-> <<>>, metadata_store |-> EmptyMap,
                        id_to_idx |-> EmptyMap, idx_to_id |-> EmptyMap,
                        new_idx |-> 0])
        st1 == [index |-> [present |-> TRUE, vecs |-> acc.vecs],
                metadata_store |-> acc.metadata_store,
                id_to_idx |-> acc.id_to_idx,
                idx_to_id |-> acc.idx_to_id,
                next_idx |-> acc.new_idx]
    IN  IF ~st.index.present
        THEN [st |-> st, dsk |-> dsk, ok |-> FALSE]
        ELSE IF indices_to_delete = {}
        THEN [st |-> st, dsk |-> dsk, ok |-> TRUE]
        ELSE [st |-> st1, dsk |-> Save(st1, dsk), ok |-> TRUE]

\* get_chunk_ids_by_document_id: scan offsets 0..ntotal-1 in order
RECURSIVE ScanChunkIds(_, _, _)
ScanChunkIds(st, document_id, old_idx) ==
    IF old_idx >= get_vector_count(st)
    THEN <<>>
    ELSE LET rest == ScanChunkIds(st, document_id, old_idx + 1)
             entry == st.metadata_store[old_idx]
         IN IF old_idx \in DOMAIN st.metadata_store
               /\ (entry.metadata.document_id = document_id
                   \/ (entry.id.kind = "chunk" /\ entry.id.a = document_id))
            THEN <<entry.id>> \o rest
            ELSE rest

faiss_get_chunk_ids(st, document_id) ==
    IF ~st.index.present THEN <<>> ELSE ScanChunkIds(st, document_id, 0)

\* squared L2 distance of the one-coordinate vectors
Dist(q, v) == (q - v) * (q - v)

\* index.search: the k nearest offsets, nearest first
RECURSIVE Nearest(_, _, _, _)
Nearest(vecs, q, k, taken) ==
    LET cand == (0..(Len(vecs) - 1)) \ taken
    IN IF k = 0 \/ cand = {}
       THEN <<>>
       ELSE LET best == CHOOSE i \in cand :
                           \A j \in cand :
                              \/ Dist(q, vecs[i + 1]) < Dist(q, vecs[j + 1])
                              \/ (Dist(q, vecs[i + 1]) = Dist(q, vecs[j + 1]) /\ i <= j)
            IN <<best>> \o Nearest(vecs, q, k - 1, taken \cup {best})

RECURSIVE CollectHits(_, _, _, _)
CollectHits(st, q, filter, hits) ==
    IF hits = <<>>
    THEN <<>>
    ELSE LET idx == Head(hits)
             rest == CollectHits(st, q, filter, Tail(hits))
             entry == st.metadata_store[idx]
         IN IF idx \notin DOMAIN st.metadata_store
            THEN rest
            ELSE IF filter # 0 /\ entry.metadata.document_id # filter
            THEN rest
            ELSE <<[id |-> entry.id, score |-> Dist(q, st.index.vecs[idx + 1]),
                    text |-> entry.text, metadata |-> entry.metadata]>> \o rest

\* search(query_vector, top_k, filter_dict); filter = 0 is no filter,
\* otherwise {"document_id": filter}
faiss_search(st, q, top_k, filter) ==
    IF ~st.index.present \/ Len(st.index.vecs) = 0
    THEN <<>>
    ELSE LET hits == Nearest(st.index.vecs, q, Min(top_k, Len(st.index.vecs)), {})
             results == CollectHits(st, q, filter, hits)
         IN SubSeq(results, 1, Min(top_k, Len(results)))

\* an arbitrary enumeration of a finite set
RECURSIVE SetToSeq(_)
SetToSeq(S) ==
    IF S = {} THEN <<>>
    ELSE LET x == CHOOSE y \in S : TRUE IN <<x>> \o SetToSeq(S \ {x})

(***************************************************************************)
(* QdrantStore: the points of the collection behind the client.            *)
(***************************************************************************)
\* record limit of the scroll call
ScrollLimit == 10000

\* a point id minted by uuid.uuid4()
Uuid(k) == [kind |-> "uuid", a |-> k, b |-> 0]
\* uuid.UUID(original_id) parses
IsUUID(id) == id.kind = "uuid"

EmptyQdrant == [points |-> {}, next_uuid |-> 0]

\* variant of qdrant_insert that leaves the metadata out of the payload
qdrant_insert_NoMetadata(qd, up, empty_ok, vectors, texts, metadatas, ids) ==
    LET n == Len(vectors)
        orig == IF ids.given THEN ids.ids ELSE [i \in 1..n |-> Uuid(qd.next_uuid + i)]
        base == IF ids.given THEN qd.next_uuid ELSE qd.next_uuid + n
        m == Min(Len(orig), n)
        qdrant_ids == [i \in 1..Len(orig) |->
                         IF IsUUID(orig[i]) THEN orig[i] ELSE Uuid(base + i)]
        points == {[id |-> qdrant_ids[i], original_id |-> orig[i],
                    text |-> texts[i], document_id |-> 0] : i \in 1..m}
        kept == {p \in qd.points : \A q \in points : q.id # p.id}
    IN  IF ~up
        THEN [qd |-> qd, ok |-> FALSE]
        ELSE IF ~(Len(vectors) = Len(texts) /\ Len(texts) = Len(metadatas))
        THEN [qd |-> qd, ok |-> FALSE]
        ELSE IF m = 0
        THEN [qd |-> qd, ok |-> empty_ok]
        ELSE [qd |-> [points |-> kept \cup points,
                      next_uuid |-> base + Len(orig)],
              ok |-> TRUE]

\* insert_vectors.  up: the endpoint answers; empty_ok: whether the service
\* accepts an upsert of no points.  Result: [qd, ok].
qdrant_insert(qd, up, empty_ok, vectors, texts, metadatas, ids) ==
    LET n == Len(vectors)
        \* ids is None: one uuid4 per vector
        orig == IF ids.given THEN ids.ids ELSE [i \in 1..n |-> Uuid(qd.next_uuid + i)]
        base == IF ids.given THEN qd.next_uuid ELSE qd.next_uuid + n
        \* zip(qdrant_ids, ids, vectors, texts, metadatas)
        m == Min(Len(orig), n)
        \* an id that is no UUID is replaced by a new uuid4
        qdrant_ids == [i \in 1..Len(orig) |->
                         IF IsUUID(orig[i]) THEN orig[i] ELSE Uuid(base + i)]
        points == {[id |-> qdrant_ids[i], original_id |-> orig[i],
                    text |-> texts[i],
                    document_id |-> metadatas[i].document_id] : i \in 1..m}
        \* upsert replaces a point with the same id
        kept == {p \in qd.points : \A q \in points : q.id # p.id}
    IN  IF ~up
        THEN [qd |-> qd, ok |-> FALSE]
        ELSE IF ~(Len(vectors) = Len(texts) /\ Len(texts) = Len(metadatas))
        THEN [qd |-> qd, ok |-> FALSE]
        ELSE IF m = 0
        THEN [qd |-> qd, ok |-> empty_ok]
        ELSE [qd |-> [points |-> kept \cup points,
                      next_uuid |-> base + Len(orig)],
              ok |-> TRUE]

\* delete_by_ids: client.delete(points_selector=ids) selects by point id.
\* strict: the service rejects a request that names an id that is no UUID.
qdrant_delete(qd, up, strict, ids) ==
    IF ~up
    THEN [qd |-> qd, ok |-> FALSE]
    ELSE IF strict /\ \E i \in DOMAIN ids : ~IsUUID(ids[i])
    THEN [qd |-> qd, ok |-> FALSE]
    ELSE [qd |-> [qd EXCEPT !.points = {p \in @ : p.id \notin Range(ids)}],
          ok |-> TRUE]

\* get_chunk_ids_by_document_id: scroll with a document_id filter, the
\* original_id of every hit; [] when the call raises
qdrant_get_chunk_ids(qd, up, document_id) ==
    IF ~up
    THEN <<>>
    ELSE LET hits == SetToSeq({p \in qd.points : p.document_id = document_id})
         IN [i \in 1..Min(Len(hits), ScrollLimit) |-> hits[i].original_id]

\* get_vector_count: 0 when the call raises
qdrant_count(qd, up) == IF up THEN Cardinality(qd.points) ELSE 0

(***************************************************************************)
(* VectorStoreManager.                                                     *)
(***************************************************************************)
\* the module-level _vector_store_manager before the first accessor call
NoManager ==
    [constructed |-> FALSE, use_qdrant |-> FALSE, store |-> "None", store_type |-> ""]

\* variant of _try_qdrant that assigns the type label before the store is built
try_qdrant_LabelFirst(m, probe_ok, ctor_ok) ==
    IF ~probe_ok
    THEN [m |-> m, ret |-> FALSE]
    ELSE IF ~ctor_ok
    THEN [m |-> [m EXCEPT !.store_type = "Qdrant"], ret |-> FALSE]
    ELSE [m |-> [m EXCEPT !.store = "Qdrant", !.store_type = "Qdrant"], ret |-> TRUE]

\* _try_qdrant.  probe_ok: QdrantStore.test_connection returned True;
\* ctor_ok: QdrantStore(...) did not raise.  Result: [m, ret].
try_qdrant(m, probe_ok, ctor_ok) ==
    IF ~probe_ok
    THEN [m |-> m, ret |-> FALSE]
    ELSE IF ~ctor_ok
    THEN [m |-> m, ret |-> FALSE]
    ELSE [m |-> [m EXCEPT !.store = "Qdrant", !.store_type = "Qdrant"], ret |-> TRUE]

\* _use_faiss
use_faiss(m) == [m EXCEPT !.store = "FAISS", !.store_type = "FAISS"]

\* variant of initialize_store without the fallback
initialize_store_NoFallback(m, probe_ok, ctor_ok) ==
    IF m.use_qdrant THEN try_qdrant(m, probe_ok, ctor_ok).m ELSE use_faiss(m)

\* _initialize_store
initialize_store(m, probe_ok, ctor_ok) ==
    IF m.use_qdrant /\ try_qdrant(m, probe_ok, ctor_ok).ret
    THEN try_qdrant(m, probe_ok, ctor_ok).m
    ELSE use_faiss(m)

get_store_type(m) == m.store_type
is_using_qdrant(m) == m.store_type = "Qdrant"
is_using_faiss(m) == m.store_type = "FAISS"

\* retry_qdrant.  Result: [m, ret].
retry_qdrant(m, probe_ok, ctor_ok) ==
    IF is_using_qdrant(m)
    THEN [m |-> m, ret |-> TRUE]
    ELSE try_qdrant(m, probe_ok, ctor_ok)

\* the active store's get_vector_count
store_count(m, st, qd, up) ==
    IF m.store = "Qdrant" THEN qdrant_count(qd, up) ELSE get_vector_count(st)

\* get_store_info
get_store_info(m, st, qd, up) ==
    [store_type |-> m.store_type,
     vector_count |-> store_count(m, st, qd, up),
     is_degraded |-> (is_using_faiss(m) /\ m.use_qdrant)]

\* the active store's get_chunk_ids_by_document_id
store_get_chunk_ids(m, st, qd, up, document_id) ==
    IF m.store = "Qdrant"
    THEN qdrant_get_chunk_ids(qd, up, document_id)
    ELSE faiss_get_chunk_ids(st, document_id)

NoInfo == [store_type |-> "", vector_count |-> 0, is_degraded |-> FALSE]

NoResp ==
    [op |-> "none", status |-> 0, ret |-> FALSE, doc |-> 0, count |-> 0,
     saved |-> FALSE, unreachable |-> FALSE, raised |-> FALSE,
     store |-> "None", info |-> NoInfo, listing |-> {}]

(***************************************************************************)
(* State.                                                                  *)
(***************************************************************************)
VARIABLES
    faiss,      \* the FAISSStore instance (BlankStore while none is built)
    disk,       \* the three files of the collection in the storage directory
    call,       \* the last store-level call: its arguments and return value
    distinct,   \* history: every insert so far supplied pairwise distinct,
                \* not yet stored ids, one per vector
    mgr,        \* the VectorStoreManager singleton of dependencies.py
    qdrantUp,   \* whether the Qdrant endpoint answers
    qdrant,     \* the points of the Qdrant collection
    files,      \* the files of the documents directory
    next_doc,   \* number of document ids minted by uuid.uuid4() so far
    resp,       \* the last manager call or HTTP request and its outcome
    request,    \* the QueryRequest of the streaming query being served
    thread,     \* run_stream_in_thread: position, generator, full_answer
    chunk_queue,    \* the Queue between the thread and the response generator
    error_occurred, \* error_occurred[0]
    error_message,  \* error_message[0]
    gen,        \* generate(): position, its locals sources and full_answer
    events,     \* the SSE events yielded to the client so far
    query,      \* POST /query: the handler, its worker thread, the clock
    singletons, \* the module-level singletons and the requests that ask for them
    calc,       \* a call of a pure function: its arguments and its result
    storeThreads,   \* a delete_by_ids and a search running on two threads
    retrieval   \* the RetrievalService singleton: the store it was given

storeVars == <<faiss, disk, call, distinct>>
streamVars == <<request, thread, chunk_queue, error_occurred, error_message, gen, events>>
otherVars == <<query, singletons, calc, storeThreads, retrieval>>
apiVars == <<mgr, qdrantUp, qdrant, files, next_doc, resp, streamVars, otherVars>>
vars == <<faiss, disk, call, distinct, mgr, qdrantUp, qdrant, files, next_doc, resp,
          request, thread, chunk_queue, error_occurred, error_message, gen, events,
          query, singletons, calc, storeThreads, retrieval>>

\* a value that is None or a list / string
None == [set |-> FALSE, val |-> <<>>]
Some(v) == [set |-> TRUE, val |-> v]

NoGenerator == [fragments |-> <<>>, breaks |-> FALSE, message |-> <<>>]

\* no streaming query is being served
StreamIdle ==
    /\ request = [include_suggestions |-> FALSE]
    /\ thread = [pc |-> "idle", answer_generator |-> NoGenerator,
                 sources |-> <<>>, full_answer |-> <<>>, raised |-> <<>>]
    /\ chunk_queue = <<>>
    /\ error_occurred = FALSE
    /\ error_message = None
    /\ gen = [pc |-> "idle", status |-> 0, sources |-> None, full_answer |-> None]
    /\ events = <<>>


\* inputs of insert_vectors: (vector, text, metadata) triples
Items ==
    {[vec |-> 0, text |-> "t1", metadata |-> [document_id |-> 0]],
     [vec |-> 1, text |-> "t2", metadata |-> [document_id |-> 1]]}

NoCall ==
    [op |-> "none", ok |-> TRUE, given |-> FALSE, ids |-> <<>>, items |-> <<>>]

StoredIds(st) == {st.metadata_store[x].id : x \in DOMAIN st.metadata_store}

\* a fresh store: FAISSStore(...) on an empty directory
InitStore ==
    /\ faiss = FaissOpen(NoFiles).st
    /\ disk = FaissOpen(NoFiles).dsk
    /\ call = NoCall
    /\ distinct = TRUE
    /\ StreamIdle
    /\ query = [pc |-> "idle"]
    /\ singletons = [pc |-> "idle"]
    /\ storeThreads = [pc |-> "idle"]
    /\ retrieval = [pc |-> "idle"]
    /\ calc = [op |-> "none"]
    /\ mgr = NoManager
    /\ qdrantUp = FALSE
    /\ qdrant = EmptyQdrant
    /\ files = {}
    /\ next_doc = 0
    /\ resp = NoResp

\* store.insert_vectors(vectors, texts, metadatas, ids)
\*   fits   = FALSE: a vector of the wrong dimension is in the batch
\*   short  = TRUE : texts is one shorter than vectors
InsertVectors ==
    \E n \in 0..MaxBatch, fits \in BOOLEAN, short \in BOOLEAN, given \in BOOLEAN :
      \E items \in [1..n -> Items] :
        \E ids \in IF given THEN SeqsUpTo(CallerIds, n) ELSE {<<>>} :
          LET vectors == [i \in 1..n |-> [fits |-> fits, val |-> items[i].vec]]
              texts == [i \in 1..(IF short /\ n > 0 THEN n - 1 ELSE n) |-> items[i].text]
              metadatas == [i \in 1..n |-> items[i].metadata]
              r == insert_vectors(faiss, disk, vectors, texts, metadatas,
                                  [given |-> given, ids |-> ids])
              use_ids == IF given THEN ids ELSE GeneratedIds(faiss, n)
          IN /\ get_vector_count(faiss) + n <= MaxVectors
             /\ faiss.next_idx + n <= MaxVectors
             /\ faiss' = r.st
             /\ disk' = r.dsk
             /\ call' = [op |-> "insert", ok |-> r.ok, given |-> given,
                         ids |-> use_ids, items |-> items]
             /\ distinct' = (distinct /\
                               (r.ok => /\ Len(use_ids) = n
                                        /\ IsInjective(use_ids)
                                        /\ Range(use_ids) \cap StoredIds(faiss) = {}))
             /\ UNCHANGED apiVars

\* store.delete_by_ids(ids)
DeleteByIds ==
    \E S \in SUBSET (CallerIds \cup StoredIds(faiss)) :
      LET ids == SetToSeq(S)
          r == delete_by_ids(faiss, disk, ids)
      IN /\ Cardinality(S) <= MaxBatch
         /\ faiss' = r.st
         /\ disk' = r.dsk
         /\ call' = [op |-> "delete", ok |-> r.ok, given |-> TRUE,
                     ids |-> ids, items |-> <<>>]
         /\ UNCHANGED distinct
         /\ UNCHANGED apiVars

NextInsDel == InsertVectors \/ DeleteByIds

\* insert_vectors and delete_by_ids on one fresh store instance
SpecFaiss == InitStore /\ [][NextInsDel]_vars

\* FAISSStore(...) again on the same directory (a second instance)
Reopen ==
    /\ faiss' = FaissOpen(disk).st
    /\ disk' = FaissOpen(disk).dsk
    /\ call' = [NoCall EXCEPT !.op = "open"]
    /\ UNCHANGED distinct
    /\ UNCHANGED apiVars

CreateCollection ==
    LET r == create_collection(faiss, disk)
    IN /\ faiss' = r.st
       /\ disk' = r.dsk
       /\ call' = [NoCall EXCEPT !.op = "create_collection", !.ok = r.ok]
       /\ UNCHANGED distinct
       /\ UNCHANGED apiVars

DeleteCollection ==
    LET r == delete_collection(faiss, disk)
    IN /\ faiss' = r.st
       /\ disk' = r.dsk
       /\ call' = [NoCall EXCEPT !.op = "delete_collection", !.ok = r.ok]
       /\ UNCHANGED distinct
       /\ UNCHANGED apiVars

\* close(): _save
Close ==
    /\ disk' = Save(faiss, disk)
    /\ call' = [NoCall EXCEPT !.op = "close"]
    /\ UNCHANGED <<faiss, distinct>>
    /\ UNCHANGED apiVars

NextStore ==
    \/ InsertVectors
    \/ DeleteByIds
    \/ Reopen
    \/ CreateCollection
    \/ DeleteCollection
    \/ Close

\* every public operation of the local-index store
SpecFaissAll == InitStore /\ [][NextStore]_vars

(***************************************************************************)
(* Claims about the local-index store.                                     *)
(***************************************************************************)
\* is id stored, and with which text and metadata
IsStored(st, id) ==
    /\ id \in DOMAIN st.id_to_idx
    /\ st.id_to_idx[id] \in DOMAIN st.metadata_store
    /\ st.id_to_idx[id] < get_vector_count(st)
    /\ st.metadata_store[st.id_to_idx[id]].id = id

TextOf(st, id) == st.metadata_store[st.id_to_idx[id]].text
MetadataOf(st, id) == st.metadata_store[st.id_to_idx[id]].metadata

\* ids some search or some document lookup can return
Retrievable(st) ==
    UNION ({ {faiss_search(st, q, k, 0)[i].id : i \in DOMAIN faiss_search(st, q, k, 0)} :
               q \in {0, 1}, k \in 1..(MaxVectors + 1) }
           \cup { Range(faiss_get_chunk_ids(st, d)) : d \in 0..MaxDocs })

C4_InsertEffect ==
    (call'.op = "insert" /\ call'.ok) =>
        /\ get_vector_count(faiss') = get_vector_count(faiss) + Len(call'.items)
        /\ \A i \in 1..Len(call'.items) :
              /\ IsStored(faiss', call'.ids[i])
              /\ TextOf(faiss', call'.ids[i]) = call'.items[i].text
              /\ MetadataOf(faiss', call'.ids[i]) = call'.items[i].metadata
        /\ \A id \in StoredIds(faiss) :
              /\ IsStored(faiss', id)
              /\ TextOf(faiss', id) = TextOf(faiss, id)
              /\ MetadataOf(faiss', id) = MetadataOf(faiss, id)

C4_DeleteEffect ==
    (call'.op = "delete" /\ call'.ok) =>
        LET deleted == Range(call'.ids) \cap StoredIds(faiss)
        IN /\ get_vector_count(faiss') = get_vector_count(faiss) - Cardinality(deleted)
           /\ Range(call'.ids) \cap Retrievable(faiss') = {}
           /\ \A id \in StoredIds(faiss) \ deleted :
                 /\ IsStored(faiss', id)
                 /\ TextOf(faiss', id) = TextOf(faiss, id)
                 /\ MetadataOf(faiss', id) = MetadataOf(faiss, id)

\* C4: on a fresh local-index store, as long as every insert supplied pairwise
\* distinct ids, the count starts at 0, each successful insert of n vectors
\* adds n to get_vector_count() and stores each id with its text and metadata,
\* each delete_by_ids of M stored ids subtracts M, no deleted id is returned by
\* get_chunk_ids_by_document_id or search, and every other id keeps its
\* original text and metadata.
C4_RoundTrip ==
    /\ get_vector_count(faiss) = 0
    /\ [][distinct' => (C4_InsertEffect /\ C4_DeleteEffect)]_vars

\* C4 witness: a delete removed one of several distinct ids and renumbered
\* the survivor at offset 0
C4_Witness ==
    /\ distinct
    /\ call.op = "delete" /\ call.ok /\ Len(call.ids) >= 1
    /\ get_vector_count(faiss) = 2
    /\ faiss.metadata_store[0].id = CallerId(2)
    /\ CallerId(1) \in Range(call.ids)
    /\ CallerId(1) \notin StoredIds(faiss)

C6_AllOrNone ==
    \/ (disk.index.exists /\ disk.metadata.exists /\ disk.config.exists)
    \/ (~disk.index.exists /\ ~disk.metadata.exists /\ ~disk.config.exists)

(***************************************************************************)
(* The service: manager operations and the document routes.                *)
(***************************************************************************)
\* the character "_" of a file name; every other character is positive
Underscore == 0
\* original file names without the ".pdf" suffix: "a" and "a_b"
Names == {<<10>>, <<10, Underscore, 11>>}

\* f"{document_id}_{file.filename}"
FileName(document_id, name) == <<document_id, Underscore>> \o name

\* file_path.stem.split("_", 1): [len, document_id]; a uuid4 is one
\* character of the model, any other first part names no document
SplitStem(stem) ==
    IF \E i \in DOMAIN stem : stem[i] = Underscore
    THEN LET first == CHOOSE i \in DOMAIN stem :
                         stem[i] = Underscore /\ \A j \in 1..(i - 1) : stem[j] # Underscore
         IN [len |-> 2, document_id |-> IF first = 2 THEN stem[1] ELSE 0]
    ELSE [len |-> 1, document_id |-> 0]

\* documents_dir.glob(f"{document_id}_*.pdf")
GlobDocument(fs, document_id) ==
    {f \in fs : Len(f) >= 2 /\ f[1] = document_id /\ f[2] = Underscore}

\* the chunks a processed document of n chunks hands to the store
ChunkItem(i) ==
    IF i % 2 = 0
    THEN [vec |-> 0, text |-> "t1"]
    ELSE [vec |-> 1, text |-> "t2"]

\* no manager, an empty storage directory, an empty documents directory
Init ==
    /\ faiss = BlankStore
    /\ disk = NoFiles
    /\ call = NoCall
    /\ distinct = TRUE
    /\ StreamIdle
    /\ query = [pc |-> "idle"]
    /\ singletons = [pc |-> "idle"]
    /\ storeThreads = [pc |-> "idle"]
    /\ retrieval = [pc |-> "idle"]
    /\ calc = [op |-> "none"]
    /\ mgr = NoManager
    /\ qdrantUp \in BOOLEAN
    /\ qdrant = EmptyQdrant
    /\ files = {}
    /\ next_doc = 0
    /\ resp = NoResp

\* the Qdrant endpoint becomes reachable or unreachable
QdrantUpDown ==
    /\ qdrantUp' = ~qdrantUp
    /\ resp' = [NoResp EXCEPT !.op = "env"]
    /\ UNCHANGED <<otherVars, streamVars, storeVars, mgr, qdrant, files, next_doc>>

\* get_vector_store_manager() at startup: VectorStoreManager(...)
Startup ==
    /\ ~mgr.constructed
    /\ \E use_qdrant \in BOOLEAN, ctor_ok \in BOOLEAN :
         LET m0 == [NoManager EXCEPT !.constructed = TRUE, !.use_qdrant = use_qdrant]
             m1 == initialize_store(m0, qdrantUp, ctor_ok)
         IN /\ mgr' = m1
            /\ faiss' = IF m1.store = "FAISS" THEN FaissOpen(disk).st ELSE faiss
            /\ disk' = IF m1.store = "FAISS" THEN FaissOpen(disk).dsk ELSE disk
            /\ resp' = [NoResp EXCEPT
                          !.op = "construct",
                          !.unreachable = (use_qdrant /\ ~(qdrantUp /\ ctor_ok)),
                          !.raised = (m1.store = "None")]
    /\ UNCHANGED <<otherVars, streamVars, call, distinct, qdrantUp, qdrant, files, next_doc>>

\* manager.get_store()
GetStore ==
    /\ mgr.constructed
    /\ resp' = [NoResp EXCEPT !.op = "get_store", !.store = mgr.store,
                              !.raised = (mgr.store = "None")]
    /\ UNCHANGED <<otherVars, streamVars, storeVars, mgr, qdrantUp, qdrant, files, next_doc>>

\* manager.get_store_info()
GetStoreInfo ==
    /\ mgr.constructed
    /\ resp' = [NoResp EXCEPT !.op = "get_store_info",
                              !.info = get_store_info(mgr, faiss, qdrant, qdrantUp)]
    /\ UNCHANGED <<otherVars, streamVars, storeVars, mgr, qdrantUp, qdrant, files, next_doc>>

\* manager.retry_qdrant()
RetryQdrant ==
    /\ mgr.constructed
    /\ \E ctor_ok \in BOOLEAN :
         LET r == retry_qdrant(mgr, qdrantUp, ctor_ok)
         IN /\ mgr' = r.m
            /\ resp' = [NoResp EXCEPT !.op = "retry", !.ret = r.ret]
    /\ UNCHANGED <<otherVars, streamVars, storeVars, qdrantUp, qdrant, files, next_doc>>

\* manager.close(): the FAISS store saves, the Qdrant store does nothing
CloseManager ==
    /\ mgr.constructed
    /\ disk' = IF mgr.store = "FAISS" THEN Save(faiss, disk) ELSE disk
    /\ resp' = [NoResp EXCEPT !.op = "close"]
    /\ UNCHANGED <<otherVars, streamVars, faiss, call, distinct, mgr, qdrantUp, qdrant, files, next_doc>>

\* the active store's insert_vectors.  Result: [st, dsk, qd, ok].
store_insert(m, st, dsk, qd, up, empty_ok, vectors, texts, metadatas, ids) ==
    IF m.store = "Qdrant"
    THEN LET r == qdrant_insert(qd, up, empty_ok, vectors, texts, metadatas, ids)
         IN [st |-> st, dsk |-> dsk, qd |-> r.qd, ok |-> r.ok]
    ELSE LET r == insert_vectors(st, dsk, vectors, texts, metadatas, ids)
         IN [st |-> r.st, dsk |-> r.dsk, qd |-> qd, ok |-> r.ok]

\* the active store's delete_by_ids.  Result: [st, dsk, qd, ok].
store_delete(m, st, dsk, qd, up, strict, ids) ==
    IF m.store = "Qdrant"
    THEN LET r == qdrant_delete(qd, up, strict, ids)
         IN [st |-> st, dsk |-> dsk, qd |-> r.qd, ok |-> r.ok]
    ELSE LET r == delete_by_ids(st, dsk, ids)
         IN [st |-> r.st, dsk |-> r.dsk, qd |-> qd, ok |-> r.ok]

\* variant of upload_document that answers 200 whatever insert_vectors returned
upload_document_IgnoreInsert(m, st, dsk, qd, up, fs, document_id, in) ==
    LET file_path == FileName(document_id, in.name)
        saved == fs \cup {file_path}
        n == in.n
        texts == [i \in 1..n |-> ChunkItem(i - 1).text]
        metadatas == [i \in 1..n |-> [document_id |-> document_id]]
        ids == [i \in 1..n |-> ChunkId(document_id, i - 1)]
        vectors == [i \in 1..in.nvec |-> [fits |-> in.fits, val |-> ChunkItem(i - 1).vec]]
        r == store_insert(m, st, dsk, qd, up, in.empty_ok, vectors, texts, metadatas,
                          [given |-> TRUE, ids |-> ids])
        unchanged == [st |-> st, dsk |-> dsk, qd |-> qd]
    IN  IF ~in.is_pdf
        THEN unchanged @@ [files |-> fs, status |-> 400, saved |-> FALSE, count |-> 0]
        ELSE IF ~in.proc_ok
        THEN unchanged @@ [files |-> saved \ {file_path}, status |-> 500, saved |-> TRUE, count |-> 0]
        ELSE IF ~in.emb_service_ok
        THEN unchanged @@ [files |-> saved \ {file_path}, status |-> 500, saved |-> TRUE, count |-> 0]
        ELSE IF m.store = "None"
        THEN unchanged @@ [files |-> saved, status |-> 500, saved |-> TRUE, count |-> 0]
        ELSE IF ~in.embed_ok
        THEN unchanged @@ [files |-> saved, status |-> 500, saved |-> TRUE, count |-> 0]
        ELSE IF ~(Len(vectors) = Len(texts) /\ Len(texts) = Len(metadatas)
                  /\ Len(metadatas) = Len(ids))
        THEN unchanged @@ [files |-> saved, status |-> 500, saved |-> TRUE, count |-> 0]
        ELSE [st |-> r.st, dsk |-> r.dsk, qd |-> r.qd,
              files |-> saved, status |-> 200, saved |-> TRUE, count |-> n]

\* upload_document.  in = the request and the outcome of the services it uses:
\*   is_pdf: file.filename ends with ".pdf";  name: the file name
\*   proc_ok: PDFProcessor.process returned;  n: number of chunks it produced
\*   emb_service_ok: get_embedding_service() returned a loaded model
\*   embed_ok: embed_texts returned;  nvec: number of vectors it returned
\*   fits: the vectors have the dimension of the index
\* Result: [st, dsk, qd, files, status, saved, count].
upload_document(m, st, dsk, qd, up, fs, document_id, in) ==
    LET file_path == FileName(document_id, in.name)
        saved == fs \cup {file_path}
        n == in.n
        texts == [i \in 1..n |-> ChunkItem(i - 1).text]
        metadatas == [i \in 1..n |-> [document_id |-> document_id]]
        ids == [i \in 1..n |-> ChunkId(document_id, i - 1)]
        vectors == [i \in 1..in.nvec |-> [fits |-> in.fits, val |-> ChunkItem(i - 1).vec]]
        r == store_insert(m, st, dsk, qd, up, in.empty_ok, vectors, texts, metadatas,
                          [given |-> TRUE, ids |-> ids])
        unchanged == [st |-> st, dsk |-> dsk, qd |-> qd]
    IN  IF ~in.is_pdf
        THEN unchanged @@ [files |-> fs, status |-> 400, saved |-> FALSE, count |-> 0]
        \* processing failed: the saved file is unlinked
        ELSE IF ~in.proc_ok
        THEN unchanged @@ [files |-> saved \ {file_path}, status |-> 500, saved |-> TRUE, count |-> 0]
        \* no embedding service: the saved file is unlinked
        ELSE IF ~in.emb_service_ok
        THEN unchanged @@ [files |-> saved \ {file_path}, status |-> 500, saved |-> TRUE, count |-> 0]
        \* get_store() raised
        ELSE IF m.store = "None"
        THEN unchanged @@ [files |-> saved, status |-> 500, saved |-> TRUE, count |-> 0]
        \* embed_texts raised
        ELSE IF ~in.embed_ok
        THEN unchanged @@ [files |-> saved, status |-> 500, saved |-> TRUE, count |-> 0]
        \* count check
        ELSE IF ~(Len(vectors) = Len(texts) /\ Len(texts) = Len(metadatas)
                  /\ Len(metadatas) = Len(ids))
        THEN unchanged @@ [files |-> saved, status |-> 500, saved |-> TRUE, count |-> 0]
        \* insert_vectors returned False
        ELSE IF ~r.ok
        THEN [st |-> r.st, dsk |-> r.dsk, qd |-> r.qd,
              files |-> saved, status |-> 500, saved |-> TRUE, count |-> 0]
        ELSE [st |-> r.st, dsk |-> r.dsk, qd |-> r.qd,
              files |-> saved, status |-> 200, saved |-> TRUE, count |-> n]

UploadInputs ==
    {in \in [is_pdf : BOOLEAN, name : Names, proc_ok : BOOLEAN, n : 0..MaxBatch,
             emb_service_ok : BOOLEAN, embed_ok : BOOLEAN, nvec : 0..MaxBatch,
             fits : BOOLEAN, empty_ok : BOOLEAN] :
        \* embed_texts returns one vector per text, or one less
        /\ in.nvec \in {in.n, in.n - 1}
        \* one representative of the inputs a failing step makes irrelevant
        /\ (~in.is_pdf => in.proc_ok /\ in.name = <<10>>)
        /\ (~(in.is_pdf /\ in.proc_ok) => in.n = 0 /\ in.emb_service_ok)
        /\ (~(in.is_pdf /\ in.proc_ok /\ in.emb_service_ok) => in.embed_ok)
        /\ (~(in.is_pdf /\ in.proc_ok /\ in.emb_service_ok /\ in.embed_ok)
               => in.nvec = in.n /\ in.fits)
        /\ (in.n > 0 => in.empty_ok)}

\* POST /documents/upload
Upload ==
    /\ mgr.constructed
    /\ \E in \in UploadInputs :
         LET document_id == next_doc + 1
             r == upload_document(mgr, faiss, disk, qdrant, qdrantUp, files,
                                  document_id, in)
         IN /\ (in.is_pdf => next_doc < MaxDocs)
            /\ next_doc' = IF in.is_pdf THEN document_id ELSE next_doc
            /\ faiss' = r.st
            /\ disk' = r.dsk
            /\ qdrant' = r.qd
            /\ files' = r.files
            /\ resp' = [NoResp EXCEPT !.op = "upload", !.status = r.status,
                                      !.doc = IF in.is_pdf THEN document_id ELSE 0,
                                      !.saved = r.saved, !.count = r.count]
    /\ UNCHANGED <<otherVars, streamVars, call, distinct, mgr, qdrantUp>>

\* list_documents: one entry per file whose stem splits in two
list_documents(m, st, qd, up, fs) ==
    {[document_id |-> SplitStem(f).document_id,
      file_name |-> f,
      chunks_count |-> IF m.store = "None"
                       THEN 0
                       ELSE Len(store_get_chunk_ids(m, st, qd, up, SplitStem(f).document_id))] :
        f \in {g \in fs : SplitStem(g).len = 2}}

\* GET /documents
ListDocuments ==
    /\ mgr.constructed
    /\ resp' = [NoResp EXCEPT !.op = "list", !.status = 200,
                              !.listing = list_documents(mgr, faiss, qdrant, qdrantUp, files),
                              !.count = Cardinality(list_documents(mgr, faiss, qdrant, qdrantUp, files))]
    /\ UNCHANGED <<otherVars, streamVars, storeVars, mgr, qdrantUp, qdrant, files, next_doc>>

\* delete_document.  strict: see qdrant_delete.
\* Result: [st, dsk, qd, files, status].
delete_document(m, st, dsk, qd, up, strict, fs, document_id) ==
    LET chunk_ids == store_get_chunk_ids(m, st, qd, up, document_id)
        \* the result of delete_by_ids is only logged
        r == IF chunk_ids # <<>>
             THEN store_delete(m, st, dsk, qd, up, strict, chunk_ids)
             ELSE [st |-> st, dsk |-> dsk, qd |-> qd, ok |-> TRUE]
        matched == GlobDocument(fs, document_id)
        deleted == matched # {}
    IN [st |-> r.st, dsk |-> r.dsk, qd |-> r.qd,
        files |-> fs \ matched,
        status |-> IF deleted \/ chunk_ids # <<>> THEN 200 ELSE 404]

\* DELETE /documents/{document_id}
DeleteDocument ==
    /\ mgr.constructed
    /\ \E document_id \in 1..MaxDocs, strict \in BOOLEAN :
         LET r == delete_document(mgr, faiss, disk, qdrant, qdrantUp, strict,
                                  files, document_id)
         IN /\ faiss' = r.st
            /\ disk' = r.dsk
            /\ qdrant' = r.qd
            /\ files' = r.files
            /\ resp' = [NoResp EXCEPT !.op = "delete", !.status = r.status,
                                      !.doc = document_id]
    /\ UNCHANGED <<otherVars, streamVars, call, distinct, mgr, qdrantUp, next_doc>>

\* delete_failed_documents: the files the loop unlinks
failed_documents(m, st, qd, up, fs) ==
    {f \in fs : /\ SplitStem(f).len = 2
                /\ store_get_chunk_ids(m, st, qd, up, SplitStem(f).document_id) = <<>>}

\* DELETE /documents
DeleteFailedDocuments ==
    /\ mgr.constructed
    /\ LET removed == failed_documents(mgr, faiss, qdrant, qdrantUp, files)
       IN /\ files' = files \ removed
          /\ resp' = [NoResp EXCEPT !.op = "cleanup", !.status = 200,
                                    !.count = Cardinality(removed)]
    /\ UNCHANGED <<otherVars, streamVars, storeVars, mgr, qdrantUp, qdrant, next_doc>>

Next ==
    \/ QdrantUpDown
    \/ Startup
    \/ GetStore
    \/ GetStoreInfo
    \/ RetryQdrant
    \/ CloseManager
    \/ Upload
    \/ ListDocuments
    \/ DeleteDocument
    \/ DeleteFailedDocuments

\* the service: the manager singleton and the document routes
Spec == Init /\ [][Next]_vars

C2_OneWay ==
    [][mgr.constructed =>
         /\ (mgr'.store # mgr.store \/ mgr'.store_type # mgr.store_type) =>
               /\ resp'.op = "retry" /\ resp'.ret
               /\ mgr.store = "FAISS" /\ mgr.store_type = "FAISS"
               /\ mgr'.store = "Qdrant" /\ mgr'.store_type = "Qdrant"
         /\ (mgr.store = "Qdrant" => mgr'.store = "Qdrant" /\ mgr'.store_type = "Qdrant")
         /\ (resp'.op = "retry" /\ mgr.store = "Qdrant") =>
               (resp'.ret /\ mgr' = mgr /\ qdrant' = qdrant /\ faiss' = faiss)
         /\ (resp'.op = "retry" /\ ~resp'.ret) =>
               (mgr'.store = mgr.store /\ mgr'.store_type = mgr.store_type)]_vars

\* C2 witness: a retry switched a manager that had built the FAISS store
C2_Witness ==
    /\ resp.op = "retry" /\ resp.ret
    /\ mgr.store = "Qdrant" /\ mgr.store_type = "Qdrant"
    /\ faiss.index.present

\* the active store holds a chunk owned by document_id
StoreHoldsChunk(m, st, qd, document_id) ==
    IF m.store = "Qdrant"
    THEN \E p \in qd.points : p.document_id = document_id
    ELSE faiss_get_chunk_ids(st, document_id) # <<>>

\* C3: after DELETE /documents/{document_id} answered success, the active
\* store holds no chunk owned by document_id and no file {document_id}_*.pdf
\* remains.
C3_DeleteRemovesAll ==
    (resp.op = "delete" /\ resp.status = 200) =>
        /\ ~StoreHoldsChunk(mgr, faiss, qdrant, resp.doc)
        /\ GlobDocument(files, resp.doc) = {}

\* C7: when POST /documents/upload answers an error after saving the file,
\* the saved file has been deleted.
C7_FailedUploadCleansUp ==
    (resp.op = "upload" /\ resp.status >= 400 /\ resp.saved) =>
        GlobDocument(files, resp.doc) = {}

\* C8: DELETE /documents removes exactly the files whose document id has no
\* chunk in the active store, leaves the store unchanged and reports the
\* number of files removed.
C8_CleanupExact ==
    [][resp'.op = "cleanup" =>
         /\ files' = {f \in files :
                        StoreHoldsChunk(mgr, faiss, qdrant, SplitStem(f).document_id)}
         /\ faiss' = faiss /\ disk' = disk /\ qdrant' = qdrant
         /\ resp'.count = Cardinality(files \ files')]_vars

Item(type, sources, content) ==
    [type |-> type, sources |-> sources, content |-> content]

\* the None that ends the queue
EndMarker == Item("None", <<>>, <<>>)

Event(type, sources, content, questions) ==
    [type |-> type, sources |-> sources, has_sources |-> Len(sources) > 0,
     content |-> content, questions |-> questions]

\* str(e) of an exception raised during the generation
Messages == {<<>>, <<7>>}

\* what the retrieval and the language model do for one question:
\*   raises: generate_answer_stream itself raises
\*   nsrc: number of retrieved sources;  nfrag: number of text fragments
\*   breaks: the fragment sequence raises after its last fragment
\*   message: str(e) of the exception raised
StreamOutcomes ==
    {o \in [raises : BOOLEAN, nsrc : 0..MaxSources, nfrag : 0..MaxFragments,
            breaks : BOOLEAN, message : Messages] :
        /\ o.raises => (o.nsrc = 0 /\ o.nfrag = 0 /\ ~o.breaks)
        /\ ~(o.raises \/ o.breaks) => o.message = <<>>}

\* GenerationService.generate_answer_stream(question, top_k): a pair of a
\* lazy, finite sequence of non-empty text fragments and the sources list
generate_answer_stream(o) ==
    [raised |-> o.raises,
     message |-> o.message,
     answer_generator |-> [fragments |-> [i \in 1..o.nfrag |-> <<i>>],
                           breaks |-> o.breaks, message |-> o.message],
     sources |-> [i \in 1..o.nsrc |-> [id |-> i]]]

\* the except branch of run_stream_in_thread
thread_except_NoFlag(queue, e) ==
    [error_occurred |-> FALSE, error_message |-> Some(e),
     chunk_queue |-> Append(queue, EndMarker)]

thread_except(queue, e) ==
    [error_occurred |-> TRUE, error_message |-> Some(e),
     chunk_queue |-> Append(queue, EndMarker)]

\* the condition under which generate() asks for suggested questions
wants_suggestions_NoSources(req, full_answer, sources) ==
    /\ req.include_suggestions
    /\ full_answer.set /\ full_answer.val # <<>>

wants_suggestions(req, full_answer, sources) ==
    /\ req.include_suggestions
    /\ full_answer.set /\ full_answer.val # <<>>
    /\ sources.set /\ sources.val # <<>>
    /\ Len(sources.val) > 0

docVars == <<mgr, qdrantUp, qdrant, files, next_doc, resp>>

InitStream ==
    /\ faiss = BlankStore
    /\ disk = NoFiles
    /\ call = NoCall
    /\ distinct = TRUE
    /\ StreamIdle
    /\ query = [pc |-> "idle"]
    /\ singletons = [pc |-> "idle"]
    /\ storeThreads = [pc |-> "idle"]
    /\ retrieval = [pc |-> "idle"]
    /\ calc = [op |-> "none"]
    /\ mgr = NoManager
    /\ qdrantUp = FALSE
    /\ qdrant = EmptyQdrant
    /\ files = {}
    /\ next_doc = 0
    /\ resp = NoResp

thread_done_Silent(queue, full_answer) == queue

\* the end of run_stream_in_thread's try block: the "done" item, then the
\* end marker
thread_done(queue, full_answer) ==
    queue \o <<Item("done", <<>>, full_answer), EndMarker>>

\* query_stream: the StreamingResponse (status 200) is returned; generate()
\* creates the queue and the flags and starts the thread
QueryStream ==
    /\ gen.pc = "idle"
    /\ \E include_suggestions \in BOOLEAN :
         request' = [include_suggestions |-> include_suggestions]
    /\ thread' = [thread EXCEPT !.pc = "call"]
    /\ gen' = [gen EXCEPT !.pc = "loop", !.status = 200]
    /\ UNCHANGED <<chunk_queue, error_occurred, error_message, events>>
    /\ UNCHANGED <<storeVars, docVars, otherVars>>

\* run_stream_in_thread: the call of generate_answer_stream, then the
\* "sources" item; on an exception the flag, the message and the end marker
RunStreamCall ==
    /\ thread.pc = "call"
    /\ \E o \in StreamOutcomes :
         LET r == generate_answer_stream(o)
             x == thread_except(chunk_queue, r.message)
         IN IF r.raised
            THEN /\ error_occurred' = x.error_occurred
                 /\ error_message' = x.error_message
                 /\ chunk_queue' = x.chunk_queue
                 /\ thread' = [thread EXCEPT !.pc = "failed", !.raised = r.message]
            ELSE /\ thread' = [thread EXCEPT !.pc = "iterate",
                                             !.answer_generator = r.answer_generator,
                                             !.sources = r.sources]
                 /\ chunk_queue' = Append(chunk_queue, Item("sources", r.sources, <<>>))
                 /\ UNCHANGED <<error_occurred, error_message>>
    /\ UNCHANGED <<request, gen, events>>
    /\ UNCHANGED <<storeVars, docVars, otherVars>>

\* run_stream_in_thread: one turn of "for chunk in answer_generator", or its
\* end: the "done" item and the end marker
RunStreamIterate ==
    /\ thread.pc = "iterate"
    /\ LET g == thread.answer_generator
           x == thread_except(chunk_queue, g.message)
       IN IF g.fragments # <<>>
          THEN LET chunk == Head(g.fragments)
               IN /\ thread' = [thread EXCEPT
                                  !.answer_generator.fragments = Tail(g.fragments),
                                  !.full_answer = thread.full_answer \o chunk]
                  /\ chunk_queue' = Append(chunk_queue, Item("chunk", <<>>, chunk))
                  /\ UNCHANGED <<error_occurred, error_message>>
          ELSE IF g.breaks
          THEN /\ error_occurred' = x.error_occurred
               /\ error_message' = x.error_message
               /\ chunk_queue' = x.chunk_queue
               /\ thread' = [thread EXCEPT !.pc = "failed", !.raised = g.message]
          ELSE /\ chunk_queue' = thread_done(chunk_queue, thread.full_answer)
               /\ thread' = [thread EXCEPT !.pc = "end"]
               /\ UNCHANGED <<error_occurred, error_message>>
    /\ UNCHANGED <<request, gen, events>>
    /\ UNCHANGED <<storeVars, docVars, otherVars>>

\* generate(): one turn of "while True: item = chunk_queue.get()"
GenerateDrain ==
    /\ gen.pc = "loop"
    /\ chunk_queue # <<>>
    /\ LET item == Head(chunk_queue)
       IN /\ chunk_queue' = Tail(chunk_queue)
          /\ IF item.type = "None"
             THEN /\ gen' = [gen EXCEPT !.pc = "check"]
                  /\ UNCHANGED events
             ELSE IF item.type = "sources"
             THEN /\ gen' = [gen EXCEPT !.sources = Some(item.sources)]
                  /\ events' = Append(events, Event("sources", item.sources, <<>>, 0))
             ELSE IF item.type = "chunk"
             THEN /\ events' = Append(events, Event("chunk", <<>>, item.content, 0))
                  /\ UNCHANGED gen
             ELSE /\ gen' = [gen EXCEPT !.full_answer = Some(item.content),
                                        !.pc = "check"]
                  /\ events' = Append(events, Event("done", <<>>, item.content, 0))
    /\ UNCHANGED <<request, thread, error_occurred, error_message>>
    /\ UNCHANGED <<storeVars, docVars, otherVars>>

\* generate() after the loop: the error event with error_message[0], or the
\* suggestions event (with an empty list when suggest_questions raised), or
\* nothing
GenerateFinish ==
    /\ gen.pc = "check"
    /\ gen' = [gen EXCEPT !.pc = "end"]
    /\ IF error_occurred
       THEN events' = Append(events, Event("error", <<>>, error_message.val, 0))
       ELSE IF wants_suggestions(request, gen.full_answer, gen.sources)
       THEN \E questions \in 0..1 :
              events' = Append(events, Event("suggestions", <<>>, <<>>, questions))
       ELSE UNCHANGED events
    /\ UNCHANGED <<request, thread, chunk_queue, error_occurred, error_message>>
    /\ UNCHANGED <<storeVars, docVars, otherVars>>

NextStream ==
    \/ QueryStream
    \/ RunStreamCall
    \/ RunStreamIterate
    \/ GenerateDrain
    \/ GenerateFinish

SpecStream == InitStream /\ [][NextStream]_vars

\* sources first, chunks, one done, then suggestions exactly when expected
InOrder(ev, suggestions_expected) ==
    LET n == Len(ev)
    IN /\ n >= 2
       /\ ev[1].type = "sources"
       /\ \E d \in 2..n :
            /\ ev[d].type = "done"
            /\ \A i \in 2..(d - 1) : ev[i].type = "chunk"
            /\ IF suggestions_expected
               THEN n = d + 1 /\ ev[n].type = "suggestions"
               ELSE n = d

\* the response of a query whose generation did not fail is complete
Served == gen.pc = "end" /\ ~error_occurred

CountType(ev, type) == Cardinality({i \in 1..Len(ev) : ev[i].type = type})

\* C11: whenever the background thread of POST /query/stream fails (before
\* sources, between chunks or before done), the stream holds exactly one
\* error event, carrying the failure message and being the last event, no
\* done and no suggestions event; the HTTP status is not an error status.
C11_ErrorRelay ==
    thread.pc = "failed" =>
        /\ CountType(events, "done") = 0
        /\ CountType(events, "suggestions") = 0
        /\ gen.status = 200
        /\ gen.pc = "end" =>
             /\ CountType(events, "error") = 1
             /\ events[Len(events)].type = "error"
             /\ events[Len(events)].content = thread.raised

\* C11 witness: the fragment sequence raised after a chunk was sent; the
\* stream is sources, chunk, error
C11_Witness ==
    /\ thread.pc = "failed" /\ gen.pc = "end"
    /\ thread.raised # <<>>
    /\ Len(events) = 3
    /\ events[2].type = "chunk"
    /\ events[3].type = "error"

(***************************************************************************)
(* POST /query: the handler offloads generate_answer or                    *)
(* generate_with_suggestions to a worker thread and waits for it with a    *)
(* timeout.  The clock counts the seconds the handler has waited.          *)
(***************************************************************************)
\* timeout=180.0 of asyncio.wait_for
QueryTimeout == 180

\* the fixed answer of generate_answer when nothing was retrieved
Apology == "apology"

\* texts llm_service.generate can return
Answers == {"", "a1"}

NoResult ==
    [answer |-> "", sources |-> <<>>, has_sources |-> FALSE,
     suggested_questions |-> None]

QueryIdle ==
    [pc |-> "idle", include_suggestions |-> FALSE, elapsed |-> 0,
     worker |-> "idle", results |-> <<>>, llm_calls |-> 0,
     calls_at_timeout |-> 0, result |-> NoResult,
     status |-> 0, delivered |-> [set |-> FALSE, val |-> NoResult]]

\* generate_answer after retrieve(): without results the fixed answer is
\* returned at once, otherwise the context and the prompt are built for the
\* language model
generate_answer_start_AlwaysLLM(results) ==
    [worker |-> "answer", result |-> NoResult]

generate_answer_start(results) ==
    IF results = <<>>
    THEN [worker |-> "finished",
          result |-> [NoResult EXCEPT !.answer = Apology, !.sources = <<>>,
                                      !.has_sources = FALSE]]
    ELSE [worker |-> "answer", result |-> NoResult]

\* generate_with_suggestions after generate_answer returned: the language
\* model is asked for suggestions only when the answer has sources
suggestions_start(result) ==
    IF result.has_sources
    THEN [worker |-> "suggest", result |-> result]
    ELSE [worker |-> "finished",
          result |-> [result EXCEPT !.suggested_questions = Some(<<>>)]]

\* what asyncio.wait_for(asyncio.to_thread(...), timeout) does for the
\* handler: it returns the result, re-raises the worker's exception, raises
\* TimeoutError, or keeps waiting
wait_for(elapsed, worker) ==
    IF worker = "finished" THEN "result"
    ELSE IF worker = "raised" THEN "exception"
    ELSE IF elapsed >= QueryTimeout THEN "timeout"
    ELSE "pending"

\* the response of the handler for an outcome of the wait
query_response_TimeoutAs500(outcome, include_suggestions, result) ==
    IF outcome = "result"
    THEN [status |-> 200,
          delivered |-> Some(IF include_suggestions THEN result
                             ELSE [result EXCEPT !.suggested_questions = None])]
    ELSE [status |-> 500, delivered |-> [set |-> FALSE, val |-> NoResult]]

query_response(outcome, include_suggestions, result) ==
    IF outcome = "result"
    THEN [status |-> 200,
          delivered |-> Some(IF include_suggestions THEN result
                             ELSE [result EXCEPT !.suggested_questions = None])]
    ELSE IF outcome = "timeout"
    THEN [status |-> 504, delivered |-> [set |-> FALSE, val |-> NoResult]]
    ELSE [status |-> 500, delivered |-> [set |-> FALSE, val |-> NoResult]]

queryRest == <<storeVars, docVars, streamVars, singletons, calc, storeThreads, retrieval>>

InitQuery ==
    /\ faiss = BlankStore
    /\ disk = NoFiles
    /\ call = NoCall
    /\ distinct = TRUE
    /\ StreamIdle
    /\ mgr = NoManager
    /\ qdrantUp = FALSE
    /\ qdrant = EmptyQdrant
    /\ files = {}
    /\ next_doc = 0
    /\ resp = NoResp
    /\ query = QueryIdle
    /\ singletons = [pc |-> "idle"]
    /\ storeThreads = [pc |-> "idle"]
    /\ retrieval = [pc |-> "idle"]
    /\ calc = [op |-> "none"]

\* the request arrives: the worker thread is started, the handler waits
QueryStart ==
    /\ query.pc = "idle"
    /\ \E include_suggestions \in BOOLEAN :
         query' = [QueryIdle EXCEPT !.pc = "waiting", !.worker = "retrieve",
                                    !.include_suggestions = include_suggestions]
    /\ UNCHANGED queryRest

\* one second passes while the handler waits
Tick ==
    /\ query.pc = "waiting"
    /\ query.elapsed < QueryTimeout
    /\ query' = [query EXCEPT !.elapsed = query.elapsed + 1]
    /\ UNCHANGED queryRest

\* worker: retrieval_service.retrieve returns its results or raises
WorkerRetrieve ==
    /\ query.worker = "retrieve"
    /\ \/ query' = [query EXCEPT !.worker = "raised"]
       \/ \E n \in 0..MaxSources :
            LET results == [i \in 1..n |-> [id |-> i]]
                g == generate_answer_start(results)
                w == IF g.worker = "finished" /\ query.include_suggestions
                     THEN suggestions_start(g.result)
                     ELSE g
            IN query' = [query EXCEPT !.results = results, !.worker = w.worker,
                                      !.result = w.result]
    /\ UNCHANGED queryRest

\* worker: llm_service.generate(prompt) for the answer
WorkerAnswer ==
    /\ query.worker = "answer"
    /\ \/ query' = [query EXCEPT !.worker = "raised",
                                 !.llm_calls = query.llm_calls + 1]
       \/ \E answer \in Answers :
            LET result == [NoResult EXCEPT !.answer = answer,
                                           !.sources = query.results,
                                           !.has_sources = TRUE]
                w == IF query.include_suggestions
                     THEN suggestions_start(result)
                     ELSE [worker |-> "finished", result |-> result]
            IN query' = [query EXCEPT !.worker = w.worker, !.result = w.result,
                                      !.llm_calls = query.llm_calls + 1]
    /\ UNCHANGED queryRest

\* worker: suggest_questions; a failure yields the empty list
WorkerSuggest ==
    /\ query.worker = "suggest"
    /\ \E suggestions \in {<<>>, <<"q1">>} :
         query' = [query EXCEPT !.worker = "finished",
                                !.result.suggested_questions = Some(suggestions),
                                !.llm_calls = query.llm_calls + 1]
    /\ UNCHANGED queryRest

Worker == WorkerRetrieve \/ WorkerAnswer \/ WorkerSuggest

\* the handler resumes: the wait returned, raised or timed out
QueryRespond ==
    /\ query.pc = "waiting"
    /\ LET outcome == wait_for(query.elapsed, query.worker)
           r == query_response(outcome, query.include_suggestions, query.result)
       IN /\ outcome # "pending"
          /\ query' = [query EXCEPT !.pc = "responded", !.status = r.status,
                                    !.delivered = r.delivered,
                                    !.calls_at_timeout = query.llm_calls]
    /\ UNCHANGED queryRest

NextQuery ==
    \/ QueryStart
    \/ Tick
    \/ WorkerRetrieve
    \/ WorkerAnswer
    \/ WorkerSuggest
    \/ QueryRespond

\* the worker thread is scheduled until it ends
SpecQuery == InitQuery /\ [][NextQuery]_vars /\ WF_vars(Worker)

WorkerEnded == query.worker \in {"finished", "raised"}

\* C12: if the offloaded call has not finished within 180 seconds the handler
\* answers 504; the timeout cancels only the wait: the worker thread keeps
\* running to completion, and its late result is never delivered.
C12_TimeoutKeepsWorker ==
    /\ [][(query.pc = "waiting" /\ query'.pc = "responded" /\ ~WorkerEnded) =>
            (query.elapsed = QueryTimeout /\ query'.status = 504
             /\ ~query'.delivered.set /\ query'.worker = query.worker)]_vars
    /\ [][(query.pc = "waiting" /\ query.elapsed = QueryTimeout /\ ~WorkerEnded)
            => (query'.pc = "waiting" \/ query'.status = 504)]_vars
    /\ [][query.status = 504 =>
            (query'.status = 504 /\ ~query'.delivered.set)]_vars
    /\ [](query.status = 504 => <>WorkerEnded)

\* C12 witness: 504 was answered before any call of the language model, and
\* the worker then made both calls and finished
C12_Witness ==
    /\ query.status = 504
    /\ query.calls_at_timeout = 0
    /\ query.worker = "finished"
    /\ query.llm_calls = 2
    /\ ~query.delivered.set

\* C19: when retrieval returns no hit, generate_answer returns has_sources
\* false, an empty sources list and the fixed apology text and the language
\* model is not called; generate_with_suggestions then also makes no call and
\* returns an empty suggested_questions list.
C19_NoHitsNoLLM ==
    (query.worker \notin {"idle", "retrieve", "raised"} /\ query.results = <<>>) =>
        /\ query.llm_calls = 0
        /\ query.worker = "finished"
        /\ query.result.has_sources = FALSE
        /\ query.result.sources = <<>>
        /\ query.result.answer = Apology
        /\ (query.include_suggestions =>
              query.result.suggested_questions = Some(<<>>))

\* C19 witness: generate_with_suggestions returned for a question without hits
C19_Witness ==
    /\ query.worker = "finished"
    /\ query.results = <<>>
    /\ query.include_suggestions
    /\ query.result.answer = Apology
    /\ query.llm_calls = 0

(***************************************************************************)
(* The singleton accessors: "if _x is None: _x = X(...)" and "return _x"   *)
(* on module-level globals, called by the startup code, by the event loop, *)
(* by the threads that resolve Depends(get_generation_service) and by the  *)
(* worker threads.                                                         *)
(***************************************************************************)
Services == {"manager", "embedding", "llm", "retrieval", "generation"}

Threads == 1..MaxThreads

\* the accessors an accessor or the constructor it runs calls, in order
Dependencies(svc) ==
    IF svc = "retrieval" THEN <<"manager", "embedding">>
    ELSE IF svc = "generation" THEN <<"retrieval", "llm">>
    ELSE <<>>

Frame(svc) == [svc |-> svc, pc |-> "check", k |-> 0, inst |-> 0]

\* "if _x is None": the accessor constructs when it saw None
must_construct(global, svc) == global[svc] = 0

SingletonsIdle ==
    [pc |-> "idle",
     global |-> [svc \in Services |-> 0],
     constructed |-> [svc \in Services |-> 0],
     returned |-> [svc \in Services |-> {}],
     stack |-> [t \in Threads |-> <<>>],
     called |-> [t \in Threads |-> FALSE]]

depsRest == <<storeVars, docVars, streamVars, query, calc, storeThreads, retrieval>>

InitDeps ==
    /\ faiss = BlankStore
    /\ disk = NoFiles
    /\ call = NoCall
    /\ distinct = TRUE
    /\ StreamIdle
    /\ mgr = NoManager
    /\ qdrantUp = FALSE
    /\ qdrant = EmptyQdrant
    /\ files = {}
    /\ next_doc = 0
    /\ resp = NoResp
    /\ query = [pc |-> "idle"]
    /\ singletons = SingletonsIdle
    /\ storeThreads = [pc |-> "idle"]
    /\ retrieval = [pc |-> "idle"]
    /\ calc = [op |-> "none"]

\* lifespan startup: each service is asked for once, in one thread; a
\* constructor that raises is logged and leaves its global None
DepsStartup ==
    /\ singletons.pc = "idle"
    /\ \E m \in BOOLEAN, e \in BOOLEAN, l \in BOOLEAN :
         LET ok == [svc \in Services |->
                      IF svc = "manager" THEN m
                      ELSE IF svc = "embedding" THEN e
                      ELSE IF svc = "llm" THEN l
                      ELSE IF svc = "retrieval" THEN m /\ e
                      ELSE m /\ e /\ l]
             one == [svc \in Services |-> IF ok[svc] THEN 1 ELSE 0]
         IN singletons' = [singletons EXCEPT
                             !.pc = "serving",
                             !.global = one,
                             !.constructed = one,
                             !.returned = [svc \in Services |->
                                             IF ok[svc] THEN {1} ELSE {}]]
    /\ UNCHANGED depsRest

\* a request thread calls an accessor
AccessorCall(t) ==
    /\ singletons.pc = "serving"
    /\ ~singletons.called[t]
    /\ \E svc \in Services :
         singletons' = [singletons EXCEPT !.called[t] = TRUE,
                                          !.stack[t] = <<Frame(svc)>>]
    /\ UNCHANGED depsRest

\* one step of the accessor on top of the stack of thread t
AccessorStep(t) ==
    /\ singletons.stack[t] # <<>>
    /\ LET stack == singletons.stack[t]
           n == Len(stack)
           f == stack[n]
           deps == Dependencies(f.svc)
           top(g) == [stack EXCEPT ![n] = g]
       IN \/ /\ f.pc = "check"
             /\ singletons' = [singletons EXCEPT !.stack[t] =
                  top([f EXCEPT !.pc =
                        IF must_construct(singletons.global, f.svc)
                        THEN "construct" ELSE "return"])]
          \* the next accessor the construction calls
          \/ /\ f.pc = "construct" /\ f.k < Len(deps)
             /\ singletons' = [singletons EXCEPT !.stack[t] =
                  Append(top([f EXCEPT !.k = f.k + 1]), Frame(deps[f.k + 1]))]
          \* the constructor returns a new instance
          \/ /\ f.pc = "construct" /\ f.k = Len(deps)
             /\ singletons' = [singletons EXCEPT
                  !.constructed[f.svc] = singletons.constructed[f.svc] + 1,
                  !.stack[t] = top([f EXCEPT !.pc = "assign",
                                             !.inst = singletons.constructed[f.svc] + 1])]
          \* the constructor raises: the exception leaves every accessor
          \/ /\ f.pc = "construct" /\ f.k = Len(deps)
             /\ singletons' = [singletons EXCEPT !.stack[t] = <<>>]
          \/ /\ f.pc = "assign"
             /\ singletons' = [singletons EXCEPT
                  !.global[f.svc] = f.inst,
                  !.stack[t] = top([f EXCEPT !.pc = "return"])]
          \* "return _x" reads the global
          \/ /\ f.pc = "return"
             /\ singletons' = [singletons EXCEPT
                  !.returned[f.svc] = singletons.returned[f.svc]
                                         \cup {singletons.global[f.svc]},
                  !.stack[t] = SubSeq(stack, 1, n - 1)]
    /\ UNCHANGED depsRest

NextDeps ==
    \/ DepsStartup
    \/ \E t \in Threads : AccessorCall(t)
    \/ \E t \in Threads : AccessorStep(t)

SpecDeps == InitDeps /\ [][NextDeps]_vars

\* C13: under any interleaving of concurrent callers of the singleton
\* accessors each service is constructed exactly once per process and every
\* caller receives that same instance.
C13_ConstructedOnce ==
    \A svc \in Services :
        /\ singletons.constructed[svc] <= 1
        /\ Cardinality(singletons.returned[svc]) <= 1

(***************************************************************************)
(* BaseDocumentProcessor: the constructor's validation and split_text.     *)
(* A text is a sequence of characters; positions are counted from 0 as in  *)
(* the source.                                                             *)
(***************************************************************************)
Chars == {"a", " ", ".", "\n"}

\* the characters str.strip() removes
Whitespace == {" ", "\n"}

\* split_chars, in the order they are tried (of the eight markers, those
\* made of characters of Chars)
SplitChars == << <<"\n", "\n">>, <<"\n">>, <<".">> >>

ProcessorTexts == UNION {[1..n -> Chars] : n \in 0..MaxTextLen}

\* a slice index as Python reads it: a negative index counts from the end,
\* and the result is kept inside 0..len
SliceIndex(i, len) ==
    IF i < 0 THEN (IF i + len < 0 THEN 0 ELSE i + len) ELSE Min(i, len)

\* text[a:b]
Slice(text, a, b) ==
    LET lo == SliceIndex(a, Len(text))
        hi == SliceIndex(b, Len(text))
    IN IF lo < hi THEN SubSeq(text, lo + 1, hi) ELSE <<>>

RECURSIVE LStrip(_)
LStrip(text) ==
    IF text # <<>> /\ Head(text) \in Whitespace THEN LStrip(Tail(text)) ELSE text

RECURSIVE RStrip(_)
RStrip(text) ==
    IF text # <<>> /\ text[Len(text)] \in Whitespace
    THEN RStrip(SubSeq(text, 1, Len(text) - 1))
    ELSE text

\* text.strip()
Strip(text) == RStrip(LStrip(text))

\* text.rfind(sub, start, end): the highest position of sub inside
\* text[start:end], or -1
RFind(text, sub, start, end) ==
    LET lo == SliceIndex(start, Len(text))
        hi == SliceIndex(end, Len(text))
        found == {pos \in lo..(hi - Len(sub)) :
                    Slice(text, pos, pos + Len(sub)) = sub}
    IN IF found = {} THEN -1
       ELSE CHOOSE pos \in found : \A other \in found : other <= pos

\* text.find(sub, start): the lowest position of sub at or after start, or -1
Find(text, sub, start) ==
    LET lo == SliceIndex(start, Len(text))
        found == {pos \in lo..(Len(text) - Len(sub)) :
                    Slice(text, pos, pos + Len(sub)) = sub}
    IN IF found = {} THEN -1
       ELSE CHOOSE pos \in found : \A other \in found : pos <= other

\* _validate_params: TRUE when it raises ValueError
validate_params_Greater(chunk_size, chunk_overlap) ==
    \/ chunk_size <= 0
    \/ chunk_overlap < 0
    \/ chunk_overlap > chunk_size

validate_params(chunk_size, chunk_overlap) ==
    \/ chunk_size <= 0
    \/ chunk_overlap < 0
    \/ chunk_overlap >= chunk_size

RECURSIVE best_split_From(_, _, _, _)
best_split_From(text, start, end, k) ==
    IF k > Len(SplitChars) THEN end
    ELSE LET pos == RFind(text, SplitChars[k], start, end)
         IN IF pos # -1 THEN pos + Len(SplitChars[k])
            ELSE best_split_From(text, start, end, k + 1)

RECURSIVE best_split_Forward_From(_, _, _, _)
best_split_Forward_From(text, start, end, k) ==
    IF k > Len(SplitChars) THEN end
    ELSE LET pos == Find(text, SplitChars[k], start)
         IN IF pos # -1 THEN pos + Len(SplitChars[k])
            ELSE best_split_Forward_From(text, start, end, k + 1)

\* the end of the block that starts at start: the first marker of
\* split_chars found in text[start:end] decides
best_split_Forward(text, start, end) == best_split_Forward_From(text, start, end, 1)

best_split(text, start, end) == best_split_From(text, start, end, 1)

\* chunk = text[start:end].strip()
extract_chunk_NoStrip(text, start, end) == Slice(text, start, end)

extract_chunk(text, start, end) == Strip(Slice(text, start, end))

\* one turn of "while start < text_length"
split_turn(text, chunk_size, chunk_overlap, start, chunks) ==
    LET text_length == Len(text)
        end0 == start + chunk_size
        end == IF end0 < text_length THEN best_split(text, start, end0) ELSE end0
        chunk == extract_chunk(text, start, end)
    IN [chunks |-> IF chunk # <<>> THEN Append(chunks, chunk) ELSE chunks,
        end |-> end,
        start |-> IF end < text_length THEN end - chunk_overlap ELSE text_length]

\* windows: the (start, end) of the turns of the loop so far
ProcessorIdle ==
    [op |-> "none", pc |-> "idle", chunk_size |-> 0, chunk_overlap |-> 0,
     raised |-> FALSE, text |-> <<>>, start |-> 0, chunks |-> <<>>,
     windows |-> <<>>]

procRest == <<storeVars, docVars, streamVars, query, singletons, storeThreads, retrieval>>

InitProcessor ==
    /\ faiss = BlankStore
    /\ disk = NoFiles
    /\ call = NoCall
    /\ distinct = TRUE
    /\ StreamIdle
    /\ mgr = NoManager
    /\ qdrantUp = FALSE
    /\ qdrant = EmptyQdrant
    /\ files = {}
    /\ next_doc = 0
    /\ resp = NoResp
    /\ query = [pc |-> "idle"]
    /\ singletons = [pc |-> "idle"]
    /\ storeThreads = [pc |-> "idle"]
    /\ retrieval = [pc |-> "idle"]
    /\ calc = ProcessorIdle

\* PDFProcessor(chunk_size, chunk_overlap)
ProcessorNew ==
    /\ calc.pc = "idle"
    /\ \E chunk_size \in -1..MaxChunk, chunk_overlap \in -1..MaxChunk :
         LET raised == validate_params(chunk_size, chunk_overlap)
         IN calc' = [ProcessorIdle EXCEPT
                       !.op = "construct",
                       !.pc = IF raised THEN "raised" ELSE "constructed",
                       !.chunk_size = chunk_size,
                       !.chunk_overlap = chunk_overlap,
                       !.raised = raised]
    /\ UNCHANGED procRest

\* processor.split_text(text): the early return or the start of the loop
SplitText ==
    /\ calc.pc = "constructed"
    /\ \E text \in ProcessorTexts :
         calc' = [calc EXCEPT !.op = "split_text", !.text = text, !.start = 0,
                              !.chunks = <<>>, !.windows = <<>>,
                              !.pc = IF text = <<>> \/ Strip(text) = <<>>
                                     THEN "returned" ELSE "loop"]
    /\ UNCHANGED procRest

\* the loop of split_text; it is followed for as many turns as there are
\* window starts, after which a start has come back and the loop goes round
SplitLoop ==
    /\ calc.pc = "loop"
    /\ Len(calc.windows) <= MaxTextLen + MaxChunk
    /\ IF calc.start < Len(calc.text)
       THEN LET r == split_turn(calc.text, calc.chunk_size, calc.chunk_overlap,
                                calc.start, calc.chunks)
            IN calc' = [calc EXCEPT !.start = r.start, !.chunks = r.chunks,
                                    !.windows = Append(@, <<calc.start, r.end>>)]
       ELSE calc' = [calc EXCEPT !.pc = "returned"]
    /\ UNCHANGED procRest

NextProcessor ==
    \/ ProcessorNew
    \/ SplitText
    \/ SplitLoop

SpecProcessor == InitProcessor /\ [][NextProcessor]_vars

Returned == calc.op = "split_text" /\ calc.pc = "returned"

\* C14: for a text shorter than chunk_size split_text returns exactly one
\* chunk, equal to the text without its surrounding whitespace; for an empty
\* or whitespace-only text it returns no chunk.
C14_ShortText ==
    Returned =>
        LET trimmed == Strip(calc.text)
        IN /\ trimmed = <<>> => calc.chunks = <<>>
           /\ (trimmed # <<>> /\ Len(calc.text) < calc.chunk_size) =>
                 calc.chunks = <<trimmed>>

\* C14 witness: a text shorter than chunk_size with whitespace around it
C14_Witness ==
    /\ Returned
    /\ Len(calc.text) < calc.chunk_size
    /\ calc.text = <<" ", "a">>
    /\ calc.chunks = << <<"a">> >>

\* C15: with 0 <= chunk_overlap < chunk_size, every chunk split_text produces
\* is non-empty and at most chunk_size + 2 characters long (2 being the
\* length of the longest boundary marker).
C15_ChunkLength ==
    (calc.op = "split_text"
       /\ 0 <= calc.chunk_overlap /\ calc.chunk_overlap < calc.chunk_size) =>
        \A i \in 1..Len(calc.chunks) :
            /\ calc.chunks[i] # <<>>
            /\ Len(calc.chunks[i]) <= calc.chunk_size + 2

\* C15 witness: a text longer than chunk_size was cut at a boundary marker
\* into two chunks
C15_Witness ==
    /\ Returned
    /\ Len(calc.text) > calc.chunk_size
    /\ Len(calc.chunks) = 2
    /\ \E i \in 1..Len(calc.text) : calc.text[i] = "."

\* C16: constructing a processor raises the invalid-parameter error exactly
\* when chunk_size <= 0, chunk_overlap < 0 or chunk_overlap >= chunk_size.
C16_Validation ==
    calc.op = "construct" =>
        /\ calc.raised <=> (\/ calc.chunk_size <= 0
                            \/ calc.chunk_overlap < 0
                            \/ calc.chunk_overlap >= calc.chunk_size)
        /\ calc.pc = (IF calc.raised THEN "raised" ELSE "constructed")

\* C16 witness: chunk_overlap = chunk_size was rejected
C16_Witness ==
    /\ calc.op = "construct"
    /\ calc.raised
    /\ calc.chunk_size > 0
    /\ calc.chunk_overlap = calc.chunk_size

(***************************************************************************)
(* Pure helpers: RetrievalService._merge_results, the block selection of   *)
(* GenerationService._build_context, and handle_exception.                 *)
(***************************************************************************)
\* VectorSearchResult values: scores are counted in tenths
SearchResults == [id : 1..2, score : 0..2]

ResultLists == UNION {[1..n -> SearchResults] : n \in 0..MaxResults}

\* seen_results after "for result in ...": a dict keeps the order in which
\* its keys were first inserted
RECURSIVE add_results_KeepFirst(_, _)
add_results_KeepFirst(seen, results) ==
    IF results = <<>> THEN seen
    ELSE LET result == Head(results)
             at == {i \in 1..Len(seen) : seen[i].id = result.id}
         IN add_results_KeepFirst(IF at = {} THEN Append(seen, result) ELSE seen,
                                  Tail(results))

RECURSIVE add_results(_, _)
add_results(seen, results) ==
    IF results = <<>> THEN seen
    ELSE LET result == Head(results)
             at == {i \in 1..Len(seen) : seen[i].id = result.id}
             next == IF at = {} THEN Append(seen, result)
                     ELSE LET i == CHOOSE i \in at : TRUE
                          IN IF result.score > seen[i].score
                             THEN [seen EXCEPT ![i] = result]
                             ELSE seen
         IN add_results(next, Tail(results))

\* list.sort(key=score, reverse=True) and sorted(..., reverse=True): stable
RECURSIVE InsertByScore(_, _)
InsertByScore(sorted, x) ==
    IF sorted = <<>> THEN <<x>>
    ELSE IF Head(sorted).score >= x.score
    THEN <<Head(sorted)>> \o InsertByScore(Tail(sorted), x)
    ELSE <<x>> \o sorted

RECURSIVE SortByScore(_)
SortByScore(list) ==
    IF list = <<>> THEN <<>>
    ELSE InsertByScore(SortByScore(SubSeq(list, 1, Len(list) - 1)), list[Len(list)])

\* list[:n] for n >= 0
Take(list, n) == SubSeq(list, 1, Min(n, Len(list)))

merge_results(results1, results2, top_k) ==
    Take(SortByScore(add_results(add_results(<<>>, results1), results2)), top_k)

\* text[:100].strip(): a text is its first hundred characters, trimmed, and
\* the rest
TextKey(text) == text.key

\* the i-th result of a retrieval: its text either starts as the first
\* result's text does or has a beginning of its own
Hit(i, score, same_start) ==
    [id |-> i, score |-> score,
     text |-> [key |-> IF same_start THEN 1 ELSE i, rest |-> i]]

\* unique_results of _build_context
RECURSIVE unique_by_text(_, _)
unique_by_text(unique, sorted_results) ==
    IF sorted_results = <<>> THEN unique
    ELSE LET result == Head(sorted_results)
             seen_texts == {TextKey(unique[i].text) : i \in 1..Len(unique)}
         IN unique_by_text(IF TextKey(result.text) \in seen_texts THEN unique
                           ELSE Append(unique, result),
                           Tail(sorted_results))

\* the for loop of _select_relevant_blocks_simple, from index i (counted from
\* 0) on; last is the end of the range
RECURSIVE select_loop(_, _, _, _, _)
select_loop(results, selected, i, last, threshold) ==
    IF i >= last THEN selected
    ELSE IF results[i + 1].score >= threshold
    THEN select_loop(results, Append(selected, results[i + 1]), i + 1, last, threshold)
    ELSE IF Len(selected) >= 2 THEN selected
    ELSE Append(selected, results[i + 1])

\* the closing "while len(selected) < min_blocks and ..." loop
RECURSIVE fill_min(_, _, _)
fill_min(results, selected, min_blocks) ==
    IF Len(selected) < min_blocks /\ Len(selected) < Len(results)
    THEN fill_min(results, Append(selected, results[Len(selected) + 1]), min_blocks)
    ELSE selected

select_relevant_blocks_simple_NoCap(results, min_blocks, max_blocks) ==
    IF results = <<>> THEN <<>>
    ELSE fill_min(results,
                  select_loop(results, <<results[1]>>, 1, Len(results),
                              results[1].score - 1),
                  min_blocks)

\* one tenth is the 0.1 of "threshold = max_score - 0.1"
select_relevant_blocks_simple(results, min_blocks, max_blocks) ==
    IF results = <<>> THEN <<>>
    ELSE IF Len(results) <= max_blocks THEN Take(results, max_blocks)
    ELSE fill_min(results,
                  select_loop(results, <<results[1]>>, 1,
                              Min(Len(results), max_blocks),
                              results[1].score - 1),
                  min_blocks)

\* selected_results of _build_context
build_context_blocks(results) ==
    IF results = <<>> THEN <<>>
    ELSE select_relevant_blocks_simple(
             unique_by_text(<<>>, SortByScore(results)), 1, 5)

\* the exception classes and their base class
ParentClass ==
    [RAGSystemException |-> "Exception",
     VectorStoreException |-> "RAGSystemException",
     VectorInsertException |-> "VectorStoreException",
     APIException |-> "RAGSystemException",
     InvalidRequestException |-> "APIException",
     ResourceNotFoundException |-> "APIException",
     RateLimitException |-> "APIException",
     ValueError |-> "Exception",
     Exception |-> "BaseException"]

RECURSIVE IsInstance(_, _)
IsInstance(class, base) ==
    \/ class = base
    \/ class \in DOMAIN ParentClass /\ IsInstance(ParentClass[class], base)

MessageTexts == {<<>>, <<"e">>, <<"e", "f">>}

\* the exceptions a caller can construct: the subclasses of APIException fix
\* their status code, APIException takes any
Exceptions ==
    {e \in [class : DOMAIN ParentClass, text : MessageTexts,
            status_code : {0, 400, 404, 429, 500, 503}] :
        /\ e.class = "InvalidRequestException" => e.status_code = 400
        /\ e.class = "ResourceNotFoundException" => e.status_code = 404
        /\ e.class = "RateLimitException" => e.status_code = 429
        /\ ~IsInstance(e.class, "APIException") => e.status_code = 0}

\* the "未知错误: " in front of str(exception)
UnknownPrefix == <<"?", ":">>

handle_exception_BaseFirst(exception) ==
    IF IsInstance(exception.class, "RAGSystemException")
    THEN [message |-> exception.text, status |-> 500]
    ELSE IF IsInstance(exception.class, "APIException")
    THEN [message |-> exception.text, status |-> exception.status_code]
    ELSE [message |-> UnknownPrefix \o exception.text, status |-> 500]

handle_exception(exception) ==
    IF IsInstance(exception.class, "APIException")
    THEN [message |-> exception.text, status |-> exception.status_code]
    ELSE IF IsInstance(exception.class, "RAGSystemException")
    THEN [message |-> exception.text, status |-> 500]
    ELSE [message |-> UnknownPrefix \o exception.text, status |-> 500]

\* an Optional[int] argument: null or an integer
Null == [given |-> FALSE, val |-> 0]

IntValue(n) == [given |-> TRUE, val |-> n]

\* the values a client can send for top_k and num_suggestions
TopKValues == {Null} \cup {IntValue(n) : n \in -1..12}

NumSuggestionsValues == -1..7

Questions == {<<>>, <<"q">>, <<" ">>, <<"q", "q">>}

\* Field(..., ge=lower, le=upper) on an integer
in_range(n, lower, upper) == lower <= n /\ n <= upper

\* QueryRequest(question=..., top_k=..., num_suggestions=...) raises no
\* ValidationError
query_request_valid_NoUpper(question, top_k, num_suggestions) ==
    /\ Len(question) >= 1
    /\ top_k.given => top_k.val >= 1
    /\ num_suggestions >= 1

query_request_valid(question, top_k, num_suggestions) ==
    /\ Len(question) >= 1
    /\ top_k.given => in_range(top_k.val, 1, 10)
    /\ in_range(num_suggestions, 1, 5)

\* the characters of a query or of a chunk text: "c" is a Chinese character
\* outside the stop-word list, "a" a latin letter
QueryChars == {"c", "a", " "}

IsChinese(ch) == ch = "c"

QueryTexts == UNION {[1..n -> QueryChars] : n \in 0..MaxQueryLen}

\* settings.RETRIEVAL_TOP_K
RETRIEVAL_TOP_K == 3

\* the 15 of "max(top_k, 15)"
MinTopK == 15

\* the candidates a store search returns
Candidates == [id : 1..2, score : 0..1, text : {<<"c", "c">>, <<"a">>}]

\* a store returns its hits in the order of its measure: the FAISS store by
\* L2 distance ascending (score=float(dist)), Qdrant by similarity descending
InStoreOrder(backend, list) ==
    \A i \in 1..(Len(list) - 1) :
        IF backend = "faiss" THEN list[i].score <= list[i + 1].score
        ELSE list[i].score >= list[i + 1].score

\* re.findall('[一-龥]{2,}', query) from position i on, run being the
\* Chinese characters read since the last other character
RECURSIVE chinese_words(_, _, _)
chinese_words(text, i, run) ==
    LET found == IF Len(run) >= 2 THEN <<run>> ELSE <<>>
    IN IF i > Len(text) THEN found
       ELSE IF IsChinese(text[i]) THEN chinese_words(text, i + 1, Append(run, text[i]))
       ELSE found \o chinese_words(text, i + 1, <<>>)

\* important_phrases of retrieve
important_phrases(text) == chinese_words(text, 1, <<>>)

\* query.split()
RECURSIVE split_words(_, _, _)
split_words(text, i, word) ==
    LET found == IF word # <<>> THEN <<word>> ELSE <<>>
    IN IF i > Len(text) THEN found
       ELSE IF text[i] \in Whitespace THEN found \o split_words(text, i + 1, <<>>)
       ELSE split_words(text, i + 1, Append(word, text[i]))

extract_keywords(text) ==
    SelectSeq(split_words(text, 1, <<>>), LAMBDA w : Len(w) > 1)

\* phrase in text
Contains(text, phrase) ==
    \E i \in 0..(Len(text) - Len(phrase)) : SubSeq(text, i + 1, i + Len(phrase)) = phrase

contains_phrase(result, phrases) ==
    \E k \in 1..Len(phrases) : Contains(result.text, phrases[k])

\* "for result in vector_results" of the phrase boosting; three tenths are the
\* 0.3 of "score=result.score + 0.3"
RECURSIVE boost_loop_SameScore(_, _, _, _)
boost_loop_SameScore(results, phrases, exact_match_results, boosted_results) ==
    IF results = <<>> THEN exact_match_results \o boosted_results
    ELSE IF contains_phrase(Head(results), phrases)
    THEN boost_loop_SameScore(Tail(results), phrases,
                    Append(exact_match_results, Head(results)),
                    boosted_results)
    ELSE boost_loop_SameScore(Tail(results), phrases, exact_match_results,
                    Append(boosted_results, Head(results)))

RECURSIVE boost_loop(_, _, _, _)
boost_loop(results, phrases, exact_match_results, boosted_results) ==
    IF results = <<>> THEN exact_match_results \o boosted_results
    ELSE IF contains_phrase(Head(results), phrases)
    THEN boost_loop(Tail(results), phrases,
                    Append(exact_match_results,
                           [Head(results) EXCEPT !.score = @ + 3]),
                    boosted_results)
    ELSE boost_loop(Tail(results), phrases, exact_match_results,
                    Append(boosted_results, Head(results)))

\* vector_results after "if important_phrases:"
phrase_boost(vector_results, phrases) ==
    IF phrases # <<>> THEN boost_loop(vector_results, phrases, <<>>, <<>>)
    ELSE vector_results

effective_top_k(top_k) ==
    IF top_k.given THEN Max(top_k.val, MinTopK) ELSE Max(RETRIEVAL_TOP_K, MinTopK)

\* "if not query or not query.strip()"
is_blank(text) == Strip(text) = <<>>

\* what retrieve returns: keyword_results is what _keyword_search collects
\* from the store for the keywords
retrieve(text, top_k, vector_results, keyword_results) ==
    LET k == effective_top_k(top_k)
        boosted == phrase_boost(vector_results, important_phrases(text))
        keywords == extract_keywords(text)
        merged == IF Len(boosted) < k /\ keywords # <<>>
                  THEN merge_results(boosted, keyword_results, k)
                  ELSE boosted
    IN Take(merged, k)

\* the characters of "0123456789.-" in lstrip("0123456789.-、"); the
\* ideographic comma is outside the alphabet of the texts
NumberingChars == {"0", "1", "2", "3", "4", "5", "6", "7", "8", "9", ".", "-"}

\* str.lstrip(chars)
RECURSIVE LStripChars(_, _)
LStripChars(text, chars) ==
    IF text # <<>> /\ Head(text) \in chars THEN LStripChars(Tail(text), chars)
    ELSE text

\* str.split("\n") from position i on, line being the characters read since
\* the last line break
RECURSIVE split_lines(_, _, _)
split_lines(text, i, line) ==
    IF i > Len(text) THEN <<line>>
    ELSE IF text[i] = "\n" THEN <<line>> \o split_lines(text, i + 1, <<>>)
    ELSE split_lines(text, i + 1, Append(line, text[i]))

\* q.strip().lstrip("0123456789.-、").strip()
clean_line(q) == Strip(LStripChars(Strip(q), NumberingChars))

RECURSIVE MapClean(_)
MapClean(lines) ==
    IF lines = <<>> THEN <<>> ELSE <<clean_line(Head(lines))>> \o MapClean(Tail(lines))

\* the parsing of suggest_questions: "if q.strip()" filters the lines as
\* they were split
parse_questions(response, num_questions) ==
    LET lines == split_lines(Strip(response), 1, <<>>)
        kept == SelectSeq(lines, LAMBDA q : Strip(q) # <<>>)
    IN Take(MapClean(kept), num_questions)

helperRest == <<storeVars, docVars, streamVars, query, singletons, storeThreads, retrieval>>

InitHelpers ==
    /\ faiss = BlankStore
    /\ disk = NoFiles
    /\ call = NoCall
    /\ distinct = TRUE
    /\ StreamIdle
    /\ mgr = NoManager
    /\ qdrantUp = FALSE
    /\ qdrant = EmptyQdrant
    /\ files = {}
    /\ next_doc = 0
    /\ resp = NoResp
    /\ query = [pc |-> "idle"]
    /\ singletons = [pc |-> "idle"]
    /\ storeThreads = [pc |-> "idle"]
    /\ retrieval = [pc |-> "idle"]
    /\ calc = [op |-> "none"]

\* self._merge_results(results1, results2, top_k)
MergeResults ==
    /\ calc.op = "none"
    /\ \E results1 \in ResultLists, results2 \in ResultLists, top_k \in 1..(MaxResults + 1) :
         calc' = [op |-> "merge_results", results1 |-> results1,
                  results2 |-> results2, top_k |-> top_k,
                  merged |-> merge_results(results1, results2, top_k)]
    /\ UNCHANGED helperRest

\* results = self.retrieval_service.retrieve(...): one more result of the
\* retrieval, with any score and either beginning of text
RetrieveHit ==
    /\ calc.op \in {"none", "retrieve"}
    /\ LET results == IF calc.op = "none" THEN <<>> ELSE calc.results
       IN /\ Len(results) < MaxHits
          /\ \E score \in 0..2, same_start \in BOOLEAN :
               calc' = [op |-> "retrieve",
                        results |-> Append(results,
                                           Hit(Len(results) + 1, score, same_start))]
    /\ UNCHANGED helperRest

\* self._build_context(results)
BuildContext ==
    /\ calc.op = "retrieve"
    /\ calc' = [op |-> "build_context", results |-> calc.results,
                selected |-> build_context_blocks(calc.results)]
    /\ UNCHANGED helperRest

\* handle_exception(exception)
HandleException ==
    /\ calc.op = "none"
    /\ \E exception \in Exceptions :
         calc' = [op |-> "handle_exception", exception |-> exception,
                  returned |-> handle_exception(exception)]
    /\ UNCHANGED helperRest

\* QueryRequest(**body)
QueryRequestNew ==
    /\ calc.op = "none"
    /\ \E question \in Questions, top_k \in TopKValues,
          num_suggestions \in NumSuggestionsValues :
         calc' = [op |-> "query_request", question |-> question, top_k |-> top_k,
                  num_suggestions |-> num_suggestions,
                  accepted |-> query_request_valid(question, top_k, num_suggestions)]
    /\ UNCHANGED helperRest

\* self.retrieval_service.retrieve(query, top_k)
Retrieve ==
    /\ calc.op = "none"
    /\ \E text \in QueryTexts, top_k \in {Null, IntValue(1), IntValue(MinTopK + 1)},
          backend \in {"faiss", "qdrant"},
          vector_results \in UNION {[1..n -> Candidates] : n \in 0..MaxResults},
          keyword_results \in UNION {[1..n -> Candidates] : n \in 0..1} :
         /\ InStoreOrder(backend, vector_results)
         /\ calc' = [op |-> "retrieval", text |-> text, top_k |-> top_k,
                     backend |-> backend, vector_results |-> vector_results,
                     keyword_results |-> keyword_results,
                     raised |-> is_blank(text),
                     boosted |-> phrase_boost(vector_results, important_phrases(text)),
                     returned |-> IF is_blank(text) THEN <<>>
                                  ELSE retrieve(text, top_k, vector_results,
                                                keyword_results)]
    /\ UNCHANGED helperRest

\* the parsing of the LLM's response in suggest_questions
SuggestQuestions ==
    /\ calc.op = "none"
    /\ \E response \in ProcessorTexts, num_questions \in 1..2 :
         calc' = [op |-> "suggest_questions", response |-> response,
                  num_questions |-> num_questions,
                  questions |-> parse_questions(response, num_questions)]
    /\ UNCHANGED helperRest

\* the caller takes the returned value
HelperReturn ==
    /\ calc.op \notin {"none", "retrieve"}
    /\ calc' = [op |-> "none"]
    /\ UNCHANGED helperRest

NextHelpers ==
    \/ MergeResults
    \/ RetrieveHit
    \/ BuildContext
    \/ HandleException
    \/ QueryRequestNew
    \/ SuggestQuestions
    \/ Retrieve
    \/ HelperReturn

SpecHelpers == InitHelpers /\ [][NextHelpers]_vars

ScoresOf(results1, results2, id) ==
    {r.score : r \in {x \in Range(results1) \cup Range(results2) : x.id = id}}

IdsOf(list) == {list[i].id : i \in 1..Len(list)}

\* C17: the dedup-merge of two result lists holds every id at most once, each
\* with the highest score of its occurrences in both inputs, is sorted by
\* score descending, and holds every id of the inputs unless the top_k cut
\* removed it, the cut keeping the top_k highest-scored.
C17_MergeDedup ==
    calc.op = "merge_results" =>
        LET merged == calc.merged
            all == IdsOf(calc.results1) \cup IdsOf(calc.results2)
            best(id) == CHOOSE sc \in ScoresOf(calc.results1, calc.results2, id) :
                          \A o \in ScoresOf(calc.results1, calc.results2, id) : o <= sc
        IN /\ \A i, j \in 1..Len(merged) : merged[i].id = merged[j].id => i = j
           /\ \A i \in 1..Len(merged) :
                 merged[i].id \in all /\ merged[i].score = best(merged[i].id)
           /\ \A i \in 1..(Len(merged) - 1) : merged[i].score >= merged[i + 1].score
           /\ Len(merged) = Min(calc.top_k, Cardinality(all))
           /\ \A id \in all \ IdsOf(merged) :
                 \A i \in 1..Len(merged) : merged[i].score >= best(id)

\* C17 witness: an id of both lists with different scores, the higher one in
\* the second list
C17_Witness ==
    /\ calc.op = "merge_results"
    /\ \E i \in 1..Len(calc.results1), j \in 1..Len(calc.results2) :
         /\ calc.results1[i].id = calc.results2[j].id
         /\ calc.results1[i].score < calc.results2[j].score
    /\ Len(calc.merged) = 2

UniqueKeys(results) == {TextKey(results[i].text) : i \in 1..Len(results)}

\* C18: for a non-empty result list the block selection of _build_context
\* returns at least 1 and at most 5 blocks, never more than there are unique
\* results after the deduplication by the first hundred characters, and
\* always includes the highest-scored result.
C18_BlockSelection ==
    calc.op = "build_context" =>
        LET selected == calc.selected
            results == calc.results
        IN /\ Len(selected) >= 1
           /\ Len(selected) <= 5
           /\ Len(selected) <= Cardinality(UniqueKeys(results))
           /\ \A i \in 1..Len(selected) : selected[i] \in Range(results)
           /\ \A i \in 1..Len(results) : results[i].score <= selected[1].score

\* C18 witness: six unique results, of which the two best are selected
C18_Witness ==
    /\ calc.op = "build_context"
    /\ Cardinality(UniqueKeys(calc.results)) = 6
    /\ Len(calc.selected) = 2

IsSuffix(suffix, text) ==
    /\ Len(suffix) <= Len(text)
    /\ SubSeq(text, Len(text) - Len(suffix) + 1, Len(text)) = suffix

\* C20: handle_exception maps an API-category error to its own message and
\* status code, any other domain error to its own message and 500, and any
\* other error to a generic message containing the error's text and 500.
C20_Classifier ==
    calc.op = "handle_exception" =>
        LET e == calc.exception
            r == calc.returned
        IN IF IsInstance(e.class, "APIException")
           THEN r.message = e.text /\ r.status = e.status_code
           ELSE IF IsInstance(e.class, "RAGSystemException")
           THEN r.message = e.text /\ r.status = 500
           ELSE /\ r.status = 500
                /\ r.message # e.text
                /\ IsSuffix(e.text, r.message)

\* C20 witness: a ResourceNotFoundException classified as 404
C20_Witness ==
    /\ calc.op = "handle_exception"
    /\ calc.exception.class = "ResourceNotFoundException"
    /\ calc.returned.status = 404
    /\ calc.returned.message = calc.exception.text

\* C21: QueryRequest construction is accepted exactly when the question is
\* not empty, top_k is in 1..10 and num_suggestions is in 1..5.
C21_SchemaBounds ==
    calc.op = "query_request" =>
        (calc.accepted <=>
            /\ Len(calc.question) >= 1
            /\ calc.top_k.given /\ calc.top_k.val \in 1..10
            /\ calc.num_suggestions \in 1..5)

\* C21 amended: QueryRequest construction is accepted exactly when the
\* question is not empty, top_k is null or an integer in 1..10, and
\* num_suggestions is in 1..5.
C21_SchemaBoundsOrNull ==
    calc.op = "query_request" =>
        (calc.accepted <=>
            /\ Len(calc.question) >= 1
            /\ ~calc.top_k.given \/ calc.top_k.val \in 1..10
            /\ calc.num_suggestions \in 1..5)

\* C21 witness: top_k = 11 is rejected
C21_Witness ==
    /\ calc.op = "query_request"
    /\ calc.question # <<>>
    /\ calc.top_k = IntValue(11)
    /\ calc.num_suggestions = 5
    /\ ~calc.accepted

\* C22: for every non-blank query, retrieve returns at most
\* effective_top_k = max(requested-or-default top_k, 15) results, and the
\* returned list is in descending score order.
C22_RetrieveSorted ==
    (calc.op = "retrieval" /\ ~calc.raised) =>
        /\ Len(calc.returned) <= effective_top_k(calc.top_k)
        /\ \A i \in 1..(Len(calc.returned) - 1) :
              calc.returned[i].score >= calc.returned[i + 1].score

\* C23: when at least one important phrase is extracted from the query, the
\* candidate list after boosting is all candidates whose text contains a
\* phrase, each with its score raised by exactly 0.3 and in their original
\* relative order, followed by all other candidates unchanged and in their
\* original relative order.
C23_PhraseBoost ==
    (calc.op = "retrieval" /\ important_phrases(calc.text) # <<>>) =>
        LET phrases == important_phrases(calc.text)
            hit(r) == contains_phrase(r, phrases)
            first == SelectSeq(calc.vector_results, hit)
            rest == SelectSeq(calc.vector_results, LAMBDA r : ~hit(r))
        IN /\ Len(calc.boosted) = Len(calc.vector_results)
           /\ \A i \in 1..Len(first) :
                 calc.boosted[i] = [first[i] EXCEPT !.score = first[i].score + 3]
           /\ \A i \in 1..Len(rest) : calc.boosted[Len(first) + i] = rest[i]

\* C23 witness: a matching candidate behind a better-scored one that does
\* not match is moved to the front
C23_Witness ==
    /\ calc.op = "retrieval"
    /\ Len(calc.vector_results) = 2
    /\ calc.vector_results[1].text = <<"a">>
    /\ calc.vector_results[2].text = <<"c", "c">>
    /\ calc.vector_results[1].score > calc.vector_results[2].score
    /\ calc.boosted[1].id = calc.vector_results[2].id
    /\ calc.boosted[1].score = calc.vector_results[2].score + 3

\* C24: suggest_questions returns at most num_questions entries, each with
\* leading numbering characters and surrounding whitespace removed, and none
\* of the returned entries is blank.
C24_SuggestionsClean ==
    calc.op = "suggest_questions" =>
        /\ Len(calc.questions) <= calc.num_questions
        /\ \A i \in 1..Len(calc.questions) :
              LET q == calc.questions[i]
              IN /\ q # <<>>
                 /\ Head(q) \notin Whitespace \cup NumberingChars
                 /\ q[Len(q)] \notin Whitespace

\* C26: in the local-index store, after any sequence of insert_vectors and
\* delete_by_ids calls, the stored metadata offsets are exactly
\* 0..next_idx-1, next_idx equals get_vector_count(), and id_to_idx and
\* idx_to_id are inverse of each other over those offsets.
C26_DenseOffsets ==
    /\ DOMAIN faiss.metadata_store = 0..(faiss.next_idx - 1)
    /\ faiss.next_idx = get_vector_count(faiss)
    /\ DOMAIN faiss.idx_to_id = 0..(faiss.next_idx - 1)
    /\ \A x \in DOMAIN faiss.idx_to_id :
          /\ faiss.idx_to_id[x] \in DOMAIN faiss.id_to_idx
          /\ faiss.id_to_idx[faiss.idx_to_id[x]] = x
    /\ \A id \in DOMAIN faiss.id_to_idx :
          /\ faiss.id_to_idx[id] \in DOMAIN faiss.idx_to_id
          /\ faiss.idx_to_id[faiss.id_to_idx[id]] = id

(***************************************************************************)
(* FAISSStore.delete_by_ids and FAISSStore.search on two threads: the      *)
(* delete route runs the delete while a query's worker thread searches.    *)
(* Each statement that reads or assigns a field of the store is a step.    *)
(***************************************************************************)
\* the locals new_index, new_metadata_store, new_id_to_idx, new_idx_to_id and
\* new_idx of delete_by_ids after its rebuild loop
delete_rebuild(st, ids) ==
    Rebuild(st, {st.id_to_idx[x] : x \in Range(ids) \cap DOMAIN st.id_to_idx}, 0,
            [vecs |-> <<>>, metadata_store |-> EmptyMap,
             id_to_idx |-> EmptyMap, idx_to_id |-> EmptyMap, new_idx |-> 0])

\* the five assignments "self.index = new_index" ... "self.next_idx = new_idx"
\* in their order; "rebuilt" is the position before the first
SwapOrder == <<"rebuilt", "index", "metadata_store", "id_to_idx", "idx_to_id", "next_idx">>

NextSwap(pc) == SwapOrder[(CHOOSE i \in 1..Len(SwapOrder) : SwapOrder[i] = pc) + 1]

swap_field_All(st, new, field) ==
    [index |-> [present |-> TRUE, vecs |-> new.vecs],
     metadata_store |-> new.metadata_store,
     id_to_idx |-> new.id_to_idx,
     idx_to_id |-> new.idx_to_id,
     next_idx |-> new.new_idx]

\* one of the five assignments
swap_field(st, new, field) ==
    CASE field = "index" -> [st EXCEPT !.index = [present |-> TRUE, vecs |-> new.vecs]]
      [] field = "metadata_store" -> [st EXCEPT !.metadata_store = new.metadata_store]
      [] field = "id_to_idx" -> [st EXCEPT !.id_to_idx = new.id_to_idx]
      [] field = "idx_to_id" -> [st EXCEPT !.idx_to_id = new.idx_to_id]
      [] field = "next_idx" -> [st EXCEPT !.next_idx = new.new_idx]

\* self.index.search(...): the nearest offsets of the index as it is now, each
\* with its distance
search_hits(st, q, top_k) ==
    LET hits == Nearest(st.index.vecs, q, Min(top_k, Len(st.index.vecs)), {})
    IN [i \in 1..Len(hits) |->
          [idx |-> hits[i], dist |-> Dist(q, st.index.vecs[hits[i] + 1])]]

\* one turn of "for dist, idx in zip(distances[0], indices[0])": the result
\* built from the metadata_store as it is now
collect_hit(st, hit) ==
    IF hit.idx \notin DOMAIN st.metadata_store THEN <<>>
    ELSE LET metadata_entry == st.metadata_store[hit.idx]
         IN <<[id |-> metadata_entry.id, score |-> hit.dist,
               text |-> metadata_entry.text, metadata |-> metadata_entry.metadata]>>

EmptyRebuild ==
    [vecs |-> <<>>, metadata_store |-> EmptyMap, id_to_idx |-> EmptyMap,
     idx_to_id |-> EmptyMap, new_idx |-> 0]

\* deleter: the delete_by_ids call, its argument and its locals; old is the
\* store as the call found it.  searcher: the search call, its locals, and
\* for each hit the id of the chunk whose vector was matched (matched); seen
\* is where the delete was when the index was searched, raced whether an
\* assignment of the delete fell between the searcher's reads.
ThreadsIdle ==
    [deleter |-> [pc |-> "idle", ids |-> <<>>, new |-> EmptyRebuild, old |-> BlankStore],
     searcher |-> [pc |-> "idle", q |-> 0, hits |-> <<>>, results |-> <<>>,
                   matched |-> <<>>, seen |-> "idle", raced |-> FALSE]]

raceRest == <<call, distinct, docVars, streamVars, query, singletons, calc, retrieval>>

\* a store that holds two or more chunks, inserted in one batch without ids
InitRace ==
    /\ \E n \in 2..MaxVectors :
         \E vals \in [1..n -> {0, 1}] :
           LET open == FaissOpen(NoFiles)
               texts == [i \in 1..n |-> IF i % 2 = 1 THEN "t1" ELSE "t2"]
               r == insert_vectors(open.st, open.dsk,
                                   [i \in 1..n |-> [fits |-> TRUE, val |-> vals[i]]],
                                   texts, [i \in 1..n |-> [document_id |-> 0]],
                                   [given |-> FALSE, ids |-> <<>>])
           IN faiss = r.st /\ disk = r.dsk
    /\ call = NoCall
    /\ distinct = TRUE
    /\ StreamIdle
    /\ mgr = NoManager
    /\ qdrantUp = FALSE
    /\ qdrant = EmptyQdrant
    /\ files = {}
    /\ next_doc = 0
    /\ resp = NoResp
    /\ query = [pc |-> "idle"]
    /\ singletons = [pc |-> "idle"]
    /\ calc = [op |-> "none"]
    /\ storeThreads = ThreadsIdle
    /\ retrieval = [pc |-> "idle"]

\* delete_by_ids(ids) up to the end of the rebuild loop
DeleteRebuild ==
    /\ storeThreads.deleter.pc = "idle"
    /\ \E S \in SUBSET StoredIds(faiss) :
         /\ S # {}
         /\ storeThreads' = [storeThreads EXCEPT
                               !.deleter = [pc |-> "rebuilt", ids |-> SetToSeq(S),
                                            new |-> delete_rebuild(faiss, SetToSeq(S)),
                                            old |-> faiss]]
    /\ UNCHANGED <<faiss, disk, raceRest>>

\* the next of the five assignments
DeleteSwap ==
    /\ storeThreads.deleter.pc \in Range(SwapOrder) \ {"next_idx"}
    /\ LET field == NextSwap(storeThreads.deleter.pc)
       IN /\ faiss' = swap_field(faiss, storeThreads.deleter.new, field)
          /\ storeThreads' = [storeThreads EXCEPT
                                !.deleter.pc = field,
                                !.searcher.raced = @ \/ storeThreads.searcher.pc = "collect"]
    /\ UNCHANGED <<disk, raceRest>>

\* self._save(); return True
DeleteSave ==
    /\ storeThreads.deleter.pc = "next_idx"
    /\ disk' = Save(faiss, disk)
    /\ storeThreads' = [storeThreads EXCEPT !.deleter.pc = "done"]
    /\ UNCHANGED <<faiss, raceRest>>

\* the chunk whose vector is at an offset of the index as it is now
MatchedId(idx) ==
    IF storeThreads.deleter.pc = "index"
    THEN storeThreads.deleter.new.metadata_store[idx].id
    ELSE faiss.metadata_store[idx].id

\* search(query_vector, top_k) up to the end of self.index.search
SearchIndex ==
    /\ storeThreads.searcher.pc = "idle"
    /\ \E q \in {0, 1}, top_k \in 1..MaxVectors :
         LET hits == search_hits(faiss, q, top_k)
         IN storeThreads' = [storeThreads EXCEPT
              !.searcher = IF Len(faiss.index.vecs) = 0
                           THEN [@ EXCEPT !.pc = "returned", !.q = q,
                                          !.seen = storeThreads.deleter.pc]
                           ELSE [@ EXCEPT !.pc = "collect", !.q = q, !.hits = hits,
                                          !.matched = [i \in 1..Len(hits) |->
                                                         MatchedId(hits[i].idx)],
                                          !.seen = storeThreads.deleter.pc,
                                          !.raced = storeThreads.deleter.pc = "index"]]
    /\ UNCHANGED <<faiss, disk, raceRest>>

\* one turn of the loop over the hits, or "return results[:top_k]"
SearchCollect ==
    /\ storeThreads.searcher.pc = "collect"
    /\ LET n == Len(storeThreads.searcher.results)
           hits == storeThreads.searcher.hits
       IN storeThreads' =
            IF n < Len(hits)
            THEN LET got == collect_hit(faiss, hits[n + 1])
                 IN IF got = <<>>
                    \* the offset has no metadata now: the hit is skipped
                    THEN [storeThreads EXCEPT
                            !.searcher.hits = SubSeq(hits, 1, n) \o SubSeq(hits, n + 2, Len(hits)),
                            !.searcher.matched =
                                SubSeq(@, 1, n) \o SubSeq(@, n + 2, Len(hits))]
                    ELSE [storeThreads EXCEPT !.searcher.results = @ \o got]
            ELSE [storeThreads EXCEPT !.searcher.pc = "returned"]
    /\ UNCHANGED <<faiss, disk, raceRest>>

NextRace ==
    \/ DeleteRebuild
    \/ DeleteSwap
    \/ DeleteSave
    \/ SearchIndex
    \/ SearchCollect

SpecRace == InitRace /\ [][NextRace]_vars

\* C25: delete_by_ids replaces index, metadata map, id-to-offset map,
\* offset-to-id map and next-offset counter in separate steps, so after the
\* first assignment the store holds the new index together with the old
\* maps; a search is returned results that all belong to the vectors it
\* matched only if no assignment of a delete fell between its reads and it
\* did not read the index in that mixed state.
C25_MixedState ==
    /\ storeThreads.deleter.pc = "index" =>
          /\ faiss.index.vecs = storeThreads.deleter.new.vecs
          /\ faiss.metadata_store = storeThreads.deleter.old.metadata_store
          /\ faiss.id_to_idx = storeThreads.deleter.old.id_to_idx
          /\ faiss.idx_to_id = storeThreads.deleter.old.idx_to_id
          /\ faiss.next_idx = storeThreads.deleter.old.next_idx
    /\ (storeThreads.searcher.pc = "returned" /\ ~storeThreads.searcher.raced) =>
          \A i \in 1..Len(storeThreads.searcher.results) :
              storeThreads.searcher.results[i].id = storeThreads.searcher.matched[i]

\* C25 witness: a search that ran entirely between the first and the second
\* assignment returned a chunk the delete removed, with the distance of
\* another chunk's vector
C25_Witness ==
    /\ storeThreads.searcher.pc = "returned"
    /\ storeThreads.searcher.seen = "index"
    /\ storeThreads.deleter.pc = "index"
    /\ \E i \in 1..Len(storeThreads.searcher.results) :
         /\ storeThreads.searcher.results[i].id # storeThreads.searcher.matched[i]
         /\ storeThreads.searcher.results[i].id \in Range(storeThreads.deleter.ids)

(***************************************************************************)
(* Further claims about split_text.                                        *)
(***************************************************************************)
\* C27: split_text terminates: the window start strictly increases from one
\* loop iteration to the next until it reaches the text length.
C27_StartIncreases ==
    [][(calc.op = "split_text" /\ calc.pc = "loop" /\ calc'.pc = "loop")
          => calc'.start > calc.start]_vars

\* the positions, counted from 0, of text[start:end]
WindowPositions(text, w) ==
    {p \in 0..(Len(text) - 1) :
        SliceIndex(w[1], Len(text)) <= p /\ p < SliceIndex(w[2], Len(text))}

\* C28: split_text loses no text: the window start never becomes negative,
\* each window starts at or before the end of the previous window, and every
\* non-whitespace character position of the input lies inside a returned
\* chunk.
C28_NoTextLost ==
    calc.op = "split_text" =>
        /\ calc.start >= 0
        /\ \A i \in 1..(Len(calc.windows) - 1) :
              calc.windows[i + 1][1] <= calc.windows[i][2]
        /\ calc.pc = "returned" =>
              \A p \in 0..(Len(calc.text) - 1) :
                  calc.text[p + 1] \notin Whitespace =>
                      \E i \in 1..Len(calc.windows) :
                          p \in WindowPositions(calc.text, calc.windows[i])

(***************************************************************************)
(* The RetrievalService singleton and the manager's active store.          *)
(***************************************************************************)
\* get_retrieval_service(): the first call builds RetrievalService around
\* the store that manager.get_store() returns at that moment; get_store
\* raises when the manager has no store, and the global stays None
get_retrieval_service(r, m) ==
    IF r.pc = "idle" /\ m.store # "None"
    THEN [pc |-> "wired", vector_store |-> m.store]
    ELSE r

GetRetrievalService ==
    /\ mgr.constructed
    /\ retrieval' = get_retrieval_service(retrieval, mgr)
    /\ resp' = [NoResp EXCEPT !.op = "get_retrieval_service",
                              !.raised = (mgr.store = "None")]
    /\ UNCHANGED <<storeVars, streamVars, query, singletons, calc, storeThreads,
                   mgr, qdrantUp, qdrant, files, next_doc>>

NextWiring ==
    \/ QdrantUpDown
    \/ Startup
    \/ RetryQdrant
    \/ Upload
    \/ GetRetrievalService

\* the manager, the upload route and the retrieval singleton
SpecWiring == Init /\ [][NextWiring]_vars

\* C29: at every point after the services are wired, including after a
\* successful retry_qdrant, the store that the retrieval service singleton
\* searches is the manager's current active store.
C29_SameStore ==
    retrieval.pc = "wired" => retrieval.vector_store = mgr.store

(***************************************************************************)
(* The end of a streamed response.                                         *)
(***************************************************************************)
\* the background thread runs until it ends or fails, and generate() is
\* resumed whenever the queue holds an item
SpecStreamLive ==
    /\ InitStream
    /\ [][NextStream]_vars
    /\ WF_vars(RunStreamCall)
    /\ WF_vars(RunStreamIterate)
    /\ WF_vars(GenerateDrain)
    /\ WF_vars(GenerateFinish)

\* C30: every POST /query/stream response eventually ends: the thread, ending
\* or failing, enqueues a done item or the end marker, the consumer loop
\* leaves the queue, and the stream's last event is done, suggestions or
\* error.
C30_StreamEnds ==
    (gen.pc = "loop") ~>
        (/\ gen.pc = "end"
         /\ events # <<>>
         /\ events[Len(events)].type \in {"done", "suggestions", "error"})

\* C30 witness: a stream whose thread ended normally is over, its last event
\* being suggestions
C30_Witness ==
    /\ gen.pc = "end"
    /\ thread.pc = "end"
    /\ events # <<>>
    /\ events[Len(events)].type = "suggestions"

====
